---- MODULE Spec2Model ----
(***************************************************************************)
(* Verification model of the projection / kinematics core of trafficlab-3d *)
(*   src/gui/core/kinematics.py    TrackSmoother                           *)
(*   src/gui/core/g_projection.py  GProjection (parallax, construction)    *)
(*                                                                         *)
(* Number representation.  The program computes in IEEE doubles; the model *)
(* computes the same expressions in integers:                              *)
(*   angles    in tenths of a degree (AngPerDeg units per degree),         *)
(*   unit vectors as integer pairs of length TrigScale,                    *)
(*   speeds    in hundredths of a km/h (SpeedScale units per km/h),        *)
(*   dt        in milliseconds, positions in whole map pixels,             *)
(*   parallax heights in millimetres, parallax points as exact fractions.  *)
(* math.cos/math.sin are a table lookup, math.atan2 is the inverse search  *)
(* of the same table, np.linalg.norm an integer square root: conversions   *)
(* are computed, never assumed to be the identity.                         *)
(***************************************************************************)
EXTENDS Integers, Sequences, FiniteSets, TLC

\* ---------------------------------------------------------------- numbers

\* python None: an optional value is <<>> (None) or <<v>>; an optional 2-vector
\* is <<>> or <<x, y>>.
None == <<>>

Some(v) == <<v>>

IsNone(o) == o = <<>>

Val(o) == o[1]

Abs(x) == IF x < 0 THEN -x ELSE x

Max2(a, b) == IF a >= b THEN a ELSE b

Min2(a, b) == IF a <= b THEN a ELSE b

\* Division rounded to the nearest integer (halves away from zero), d > 0.
RoundDiv(n, d) == IF n >= 0 THEN (2 * n + d) \div (2 * d) ELSE -((2 * (-n) + d) \div (2 * d))

RECURSIVE ISqrtBetween(_, _, _)
\* Largest r in lo..hi with r*r <= x, given lo*lo <= x < (hi+1)*(hi+1).
ISqrtBetween(x, lo, hi) ==
    IF lo >= hi THEN lo
    ELSE LET mid == (lo + hi + 1) \div 2
         IN IF mid * mid <= x THEN ISqrtBetween(x, mid, hi)
                              ELSE ISqrtBetween(x, lo, mid - 1)

\* floor(sqrt(x)) for 0 <= x < 2^31.
ISqrt(x) == ISqrtBetween(x, 0, 46340)

\* Units per degree of every angle of the model.
AngPerDeg == 2 * 5

FullTurn == 360 * AngPerDeg

HalfTurn == 180 * AngPerDeg

QuarterTurn == 90 * AngPerDeg

\* Length of a unit vector of the model.
TrigScale == 100 * 100

\* round(TrigScale * sin(a)) for a = 0 .. 90 degrees in steps of 0.1 degree;
\* SinTab[a + 1] is the entry of angle a.
SinTab == <<
    0, 17, 35, 52, 70, 87, 105, 122, 140, 157, 175, 192, 209, 227, 244,
    262, 279, 297, 314, 332, 349, 366, 384, 401, 419, 436, 454, 471, 488, 506,
    523, 541, 558, 576, 593, 610, 628, 645, 663, 680, 698, 715, 732, 750, 767,
    785, 802, 819, 837, 854, 872, 889, 906, 924, 941, 958, 976, 993, 1011, 1028,
    1045, 1063, 1080, 1097, 1115, 1132, 1149, 1167, 1184, 1201, 1219, 1236, 1253, 1271, 1288,
    1305, 1323, 1340, 1357, 1374, 1392, 1409, 1426, 1444, 1461, 1478, 1495, 1513, 1530, 1547,
    1564, 1582, 1599, 1616, 1633, 1650, 1668, 1685, 1702, 1719, 1736, 1754, 1771, 1788, 1805,
    1822, 1840, 1857, 1874, 1891, 1908, 1925, 1942, 1959, 1977, 1994, 2011, 2028, 2045, 2062,
    2079, 2096, 2113, 2130, 2147, 2164, 2181, 2198, 2215, 2233, 2250, 2267, 2284, 2300, 2317,
    2334, 2351, 2368, 2385, 2402, 2419, 2436, 2453, 2470, 2487, 2504, 2521, 2538, 2554, 2571,
    2588, 2605, 2622, 2639, 2656, 2672, 2689, 2706, 2723, 2740, 2756, 2773, 2790, 2807, 2823,
    2840, 2857, 2874, 2890, 2907, 2924, 2940, 2957, 2974, 2990, 3007, 3024, 3040, 3057, 3074,
    3090, 3107, 3123, 3140, 3156, 3173, 3190, 3206, 3223, 3239, 3256, 3272, 3289, 3305, 3322,
    3338, 3355, 3371, 3387, 3404, 3420, 3437, 3453, 3469, 3486, 3502, 3518, 3535, 3551, 3567,
    3584, 3600, 3616, 3633, 3649, 3665, 3681, 3697, 3714, 3730, 3746, 3762, 3778, 3795, 3811,
    3827, 3843, 3859, 3875, 3891, 3907, 3923, 3939, 3955, 3971, 3987, 4003, 4019, 4035, 4051,
    4067, 4083, 4099, 4115, 4131, 4147, 4163, 4179, 4195, 4210, 4226, 4242, 4258, 4274, 4289,
    4305, 4321, 4337, 4352, 4368, 4384, 4399, 4415, 4431, 4446, 4462, 4478, 4493, 4509, 4524,
    4540, 4555, 4571, 4586, 4602, 4617, 4633, 4648, 4664, 4679, 4695, 4710, 4726, 4741, 4756,
    4772, 4787, 4802, 4818, 4833, 4848, 4863, 4879, 4894, 4909, 4924, 4939, 4955, 4970, 4985,
    5000, 5015, 5030, 5045, 5060, 5075, 5090, 5105, 5120, 5135, 5150, 5165, 5180, 5195, 5210,
    5225, 5240, 5255, 5270, 5284, 5299, 5314, 5329, 5344, 5358, 5373, 5388, 5402, 5417, 5432,
    5446, 5461, 5476, 5490, 5505, 5519, 5534, 5548, 5563, 5577, 5592, 5606, 5621, 5635, 5650,
    5664, 5678, 5693, 5707, 5721, 5736, 5750, 5764, 5779, 5793, 5807, 5821, 5835, 5850, 5864,
    5878, 5892, 5906, 5920, 5934, 5948, 5962, 5976, 5990, 6004, 6018, 6032, 6046, 6060, 6074,
    6088, 6101, 6115, 6129, 6143, 6157, 6170, 6184, 6198, 6211, 6225, 6239, 6252, 6266, 6280,
    6293, 6307, 6320, 6334, 6347, 6361, 6374, 6388, 6401, 6414, 6428, 6441, 6455, 6468, 6481,
    6494, 6508, 6521, 6534, 6547, 6561, 6574, 6587, 6600, 6613, 6626, 6639, 6652, 6665, 6678,
    6691, 6704, 6717, 6730, 6743, 6756, 6769, 6782, 6794, 6807, 6820, 6833, 6845, 6858, 6871,
    6884, 6896, 6909, 6921, 6934, 6947, 6959, 6972, 6984, 6997, 7009, 7022, 7034, 7046, 7059,
    7071, 7083, 7096, 7108, 7120, 7133, 7145, 7157, 7169, 7181, 7193, 7206, 7218, 7230, 7242,
    7254, 7266, 7278, 7290, 7302, 7314, 7325, 7337, 7349, 7361, 7373, 7385, 7396, 7408, 7420,
    7431, 7443, 7455, 7466, 7478, 7490, 7501, 7513, 7524, 7536, 7547, 7559, 7570, 7581, 7593,
    7604, 7615, 7627, 7638, 7649, 7660, 7672, 7683, 7694, 7705, 7716, 7727, 7738, 7749, 7760,
    7771, 7782, 7793, 7804, 7815, 7826, 7837, 7848, 7859, 7869, 7880, 7891, 7902, 7912, 7923,
    7934, 7944, 7955, 7965, 7976, 7986, 7997, 8007, 8018, 8028, 8039, 8049, 8059, 8070, 8080,
    8090, 8100, 8111, 8121, 8131, 8141, 8151, 8161, 8171, 8181, 8192, 8202, 8211, 8221, 8231,
    8241, 8251, 8261, 8271, 8281, 8290, 8300, 8310, 8320, 8329, 8339, 8348, 8358, 8368, 8377,
    8387, 8396, 8406, 8415, 8425, 8434, 8443, 8453, 8462, 8471, 8480, 8490, 8499, 8508, 8517,
    8526, 8536, 8545, 8554, 8563, 8572, 8581, 8590, 8599, 8607, 8616, 8625, 8634, 8643, 8652,
    8660, 8669, 8678, 8686, 8695, 8704, 8712, 8721, 8729, 8738, 8746, 8755, 8763, 8771, 8780,
    8788, 8796, 8805, 8813, 8821, 8829, 8838, 8846, 8854, 8862, 8870, 8878, 8886, 8894, 8902,
    8910, 8918, 8926, 8934, 8942, 8949, 8957, 8965, 8973, 8980, 8988, 8996, 9003, 9011, 9018,
    9026, 9033, 9041, 9048, 9056, 9063, 9070, 9078, 9085, 9092, 9100, 9107, 9114, 9121, 9128,
    9135, 9143, 9150, 9157, 9164, 9171, 9178, 9184, 9191, 9198, 9205, 9212, 9219, 9225, 9232,
    9239, 9245, 9252, 9259, 9265, 9272, 9278, 9285, 9291, 9298, 9304, 9311, 9317, 9323, 9330,
    9336, 9342, 9348, 9354, 9361, 9367, 9373, 9379, 9385, 9391, 9397, 9403, 9409, 9415, 9421,
    9426, 9432, 9438, 9444, 9449, 9455, 9461, 9466, 9472, 9478, 9483, 9489, 9494, 9500, 9505,
    9511, 9516, 9521, 9527, 9532, 9537, 9542, 9548, 9553, 9558, 9563, 9568, 9573, 9578, 9583,
    9588, 9593, 9598, 9603, 9608, 9613, 9617, 9622, 9627, 9632, 9636, 9641, 9646, 9650, 9655,
    9659, 9664, 9668, 9673, 9677, 9681, 9686, 9690, 9694, 9699, 9703, 9707, 9711, 9715, 9720,
    9724, 9728, 9732, 9736, 9740, 9744, 9748, 9751, 9755, 9759, 9763, 9767, 9770, 9774, 9778,
    9781, 9785, 9789, 9792, 9796, 9799, 9803, 9806, 9810, 9813, 9816, 9820, 9823, 9826, 9829,
    9833, 9836, 9839, 9842, 9845, 9848, 9851, 9854, 9857, 9860, 9863, 9866, 9869, 9871, 9874,
    9877, 9880, 9882, 9885, 9888, 9890, 9893, 9895, 9898, 9900, 9903, 9905, 9907, 9910, 9912,
    9914, 9917, 9919, 9921, 9923, 9925, 9928, 9930, 9932, 9934, 9936, 9938, 9940, 9942, 9943,
    9945, 9947, 9949, 9951, 9952, 9954, 9956, 9957, 9959, 9960, 9962, 9963, 9965, 9966, 9968,
    9969, 9971, 9972, 9973, 9974, 9976, 9977, 9978, 9979, 9980, 9981, 9982, 9983, 9984, 9985,
    9986, 9987, 9988, 9989, 9990, 9990, 9991, 9992, 9993, 9993, 9994, 9995, 9995, 9996, 9996,
    9997, 9997, 9997, 9998, 9998, 9998, 9999, 9999, 9999, 9999, 10000, 10000, 10000, 10000, 10000,
    10000 >>

\* Python's float modulo by a positive number: the result is in [0, m).
PyMod(x, m) == x % m

\* math.sin / math.cos of an angle given in model units (any integer).
\* The first-quadrant angle with the same |sin| as r in [0, FullTurn).
SinFold(r) ==
    IF r <= QuarterTurn THEN r
    ELSE IF r <= HalfTurn THEN HalfTurn - r
    ELSE IF r <= HalfTurn + QuarterTurn THEN r - HalfTurn
    ELSE FullTurn - r

SinOfTurn(r) == (IF r <= HalfTurn THEN 1 ELSE -1) * SinTab[SinFold(r) + 1]

Sin(a) == SinOfTurn(PyMod(a, FullTurn))

Cos(a) == Sin(a + QuarterTurn)

\* The unit vector [math.cos(rad), math.sin(rad)] of an angle.
DegToVec(a) == <<Cos(a), Sin(a)>>

\* Both coordinates scaled down together until they fit the cross products below.
RECURSIVE FitRange(_, _)
FitRange(x, y) ==
    IF Max2(Abs(x), Abs(y)) <= 10 * TrigScale THEN <<x, y>>
    ELSE FitRange(RoundDiv(x, 4), RoundDiv(y, 4))

\* x*sin(a) - y*cos(a): negative while the direction of (x, y) is beyond angle a.
Cross(x, y, a) == x * Sin(a) - y * Cos(a)

RECURSIVE QuadrantSearch(_, _, _, _)
\* Largest a in lo..hi (first quadrant) that the direction of (x, y) has reached.
QuadrantSearch(x, y, lo, hi) ==
    IF lo >= hi THEN lo
    ELSE LET mid == (lo + hi + 1) \div 2
         IN IF Cross(x, y, mid) <= 0 THEN QuadrantSearch(x, y, mid, hi)
                                     ELSE QuadrantSearch(x, y, lo, mid - 1)

\* The table angle nearest to the direction of (x, y), x >= 0, y >= 0, not both 0.
QuadrantRound(x, y, a) ==
    IF a < QuarterTurn /\ Cross(x, y, a + 1) < -Cross(x, y, a) THEN a + 1 ELSE a

QuadrantAngle(x, y) == QuadrantRound(x, y, QuadrantSearch(x, y, 0, QuarterTurn))

\* math.degrees(math.atan2(y, x)) in model units, in (-HalfTurn, HalfTurn];
\* atan2(0, 0) is 0.
\* The angle of the direction v from its first-quadrant angle q.
Atan2Signed(v, q) ==
    IF v[1] >= 0 /\ v[2] >= 0 THEN q
    ELSE IF v[1] < 0 /\ v[2] >= 0 THEN HalfTurn - q
    ELSE IF v[1] < 0 /\ q = 0 THEN HalfTurn
    ELSE IF v[1] < 0 THEN q - HalfTurn
    ELSE -q

Atan2Fitted(v) == Atan2Signed(v, QuadrantAngle(Abs(v[1]), Abs(v[2])))

Atan2(y, x) == IF x = 0 /\ y = 0 THEN 0 ELSE Atan2Fitted(FitRange(x, y))

\* TrackSmoother._vec_to_deg: (degrees(atan2(vy, vx)) + 360) % 360.
VecToDeg(vec) == PyMod(Atan2(vec[2], vec[1]) + FullTurn, FullTurn)

\* np.linalg.norm of an integer vector, rounded down.
Norm(v) == ISqrt(v[1] * v[1] + v[2] * v[2])

\* v / np.linalg.norm(v), as a vector of length TrigScale.  A zero vector has no
\* direction (the program yields NaN components); it is left as it is.
NormalizeBy(v, n) ==
    IF n = 0 THEN v
    ELSE <<RoundDiv(v[1] * TrigScale, n), RoundDiv(v[2] * TrigScale, n)>>

Normalize(v) == NormalizeBy(v, Norm(v))

\* Shortest signed angular difference (a - b + 180) % 360 - 180, in [-180, 180).
AngDiff(a, b) == PyMod(a - b + HalfTurn, FullTurn) - HalfTurn

\* ------------------------------------------------- TrackSmoother parameters

\* Fixed-point units per km/h of every speed of the model.
SpeedScale == 10 * 10

\* Denominator of the blend factors alpha of the model (alpha = a / AlphaScale).
AlphaScale == 100 * 100

\* reg_win: length of the regression window pos_history.
RegWin == 8

\* heading_sat_coords_jitter_frames (default): length of jitter_hist.
JitterFrames == 8

\* max_physics_speed, km/h.
MaxPhysicsSpeed == 200

\* heading_ema.alpha_min (default 0.05), in 1/AlphaScale.
HAlphaMin == 500

\* heading_ema.alpha_max (default 0.6), in 1/AlphaScale.
HAlphaMax == 6000

\* heading_ema.speed_ref (default 5.0), m/s.
HSpeedRef == 5

\* speed_ema_alpha (default 0.4), in 1/AlphaScale.
SpeedEmaAlpha == 4000

\* vel_alpha = 0.25, in 1/AlphaScale.
VelAlpha == 2500

\* heading_min_speed_for_update (default 0.1 km/h), in 1/SpeedScale km/h.
HeadingMinSpeed == 10

\* heading_sat_coords_jitter_radius (default 0.6 m), in centimetres.
JitterRadiusCm == 60

\* heading_max_jump (default 5), degrees.
HeadingMaxJump == 5

\* Snapping threshold of _apply_snapping, degrees.
SnapThresh == 15

\* Snapping pull of _apply_snapping (0.3), in percent.
SnapPull == 30

\* Minimum first-to-last distance of the regression window, pixels.
MinRegressionPx == 2

\* px_per_m handed to update (GProjection.px_per_m), pixels per metre.
PxPerM == 10

\* ------------------------------------------------- TrackSmoother helpers

Dist2(p, q) == (p[1] - q[1]) * (p[1] - q[1]) + (p[2] - q[2]) * (p[2] - q[2])

Last(seq) == seq[Len(seq)]

\* (np.linalg.norm(curr - prev) / px_per_m / dt) * 3.6 in 1/SpeedScale km/h, for a
\* squared pixel distance d2, dt in milliseconds (dt > 0).
SpeedKmh(d2, dt, ppm) == (ISqrt(d2 * SpeedScale * SpeedScale) * 3600) \div (ppm * dt)

\* A bounded window that refuses the new item once it is full.
PushBoundedKeepOldest(seq, x, maxlen) ==
    IF maxlen = 0 THEN <<>>
    ELSE IF Len(seq) < maxlen THEN Append(seq, x)
    ELSE seq

\* deque(maxlen).append
PushBounded(seq, x, maxlen) ==
    IF maxlen = 0 THEN <<>>
    ELSE IF Len(seq) < maxlen THEN Append(seq, x)
    ELSE Append(Tail(seq), x)

\* alpha * a + (1 - alpha) * b of two vectors, alpha in 1/AlphaScale.
Blend(alpha, a, b) ==
    <<RoundDiv(alpha * a[1] + (AlphaScale - alpha) * b[1], AlphaScale),
      RoundDiv(alpha * a[2] + (AlphaScale - alpha) * b[2], AlphaScale)>>

RECURSIVE SeqMax(_, _)
SeqMax(seq, i) ==
    IF Len(seq) = 1 THEN seq[1][i] ELSE Max2(seq[1][i], SeqMax(Tail(seq), i))

RECURSIVE SeqMin(_, _)
SeqMin(seq, i) ==
    IF Len(seq) = 1 THEN seq[1][i] ELSE Min2(seq[1][i], SeqMin(Tail(seq), i))

RECURSIVE SeqSum(_)
SeqSum(seq) == IF seq = <<>> THEN 0 ELSE seq[1] + SeqSum(Tail(seq))

\* SpeedGate with the speed left in m/s (the factor 3.6 dropped) against the km/h cap.
SpeedGateNoKmh(hist, p, dt, ppm) ==
    /\ dt > 0
    /\ Len(hist) > 0
    /\ (SpeedKmh(Dist2(p, Last(hist)), dt, ppm) * 10) \div 36 > MaxPhysicsSpeed * SpeedScale

\* SpeedGate asking for two accepted positions.
SpeedGateAfterTwo(hist, p, dt, ppm) ==
    /\ dt > 0
    /\ Len(hist) > 1
    /\ SpeedKmh(Dist2(p, Last(hist)), dt, ppm) > MaxPhysicsSpeed * SpeedScale

\* The physics speed gate of update: a prior accepted position, dt > 0 and an
\* instantaneous speed above max_physics_speed.
SpeedGate(hist, p, dt, ppm) ==
    /\ dt > 0
    /\ Len(hist) > 0
    /\ SpeedKmh(Dist2(p, Last(hist)), dt, ppm) > MaxPhysicsSpeed * SpeedScale

\* CheckJitter with the radius left in metres (not multiplied by px_per_m).
CheckJitterRadiusInMetres(jh, ppm) ==
    IF Len(jh) < 2 THEN FALSE
    ELSE LET d == <<SeqMax(jh, 1) - SeqMin(jh, 1), SeqMax(jh, 2) - SeqMin(jh, 2)>>
         IN 100 * 100 * Dist2(d, <<0, 0>>) < JitterRadiusCm * JitterRadiusCm

\* TrackSmoother._check_jitter: the diagonal of the jitter window's bounding box
\* is shorter than the jitter radius in pixels.
CheckJitter(jh, ppm) ==
    IF Len(jh) < 2 THEN FALSE
    ELSE LET d == <<SeqMax(jh, 1) - SeqMin(jh, 1), SeqMax(jh, 2) - SeqMin(jh, 2)>>
         IN 100 * 100 * Dist2(d, <<0, 0>>) < (JitterRadiusCm * ppm) * (JitterRadiusCm * ppm)

\* SmoothSpeed with the two weights exchanged.
SmoothSpeedSwapped(ss, raw) ==
    IF IsNone(ss) THEN raw
    ELSE RoundDiv((AlphaScale - SpeedEmaAlpha) * raw + SpeedEmaAlpha * Val(ss), AlphaScale)

\* TrackSmoother._smooth_speed
SmoothSpeed(ss, raw) ==
    IF IsNone(ss) THEN raw
    ELSE RoundDiv(SpeedEmaAlpha * raw + (AlphaScale - SpeedEmaAlpha) * Val(ss), AlphaScale)

\* cv2.fitLine(pts, DIST_L2, ...): the direction (vx, vy) of the least-squares
\* line, t = atan2(2 dxy, dx2 - dy2) / 2, (cos t, sin t).  The moments are taken
\* about the first point (the fit is translation invariant).
FitLine(pts) ==
    LET n   == Len(pts)
        xs  == [i \in 1..n |-> pts[i][1] - pts[1][1]]
        ys  == [i \in 1..n |-> pts[i][2] - pts[1][2]]
        sx  == SeqSum(xs)
        sy  == SeqSum(ys)
        dx2 == n * SeqSum([i \in 1..n |-> xs[i] * xs[i]]) - sx * sx
        dy2 == n * SeqSum([i \in 1..n |-> ys[i] * ys[i]]) - sy * sy
        dxy == n * SeqSum([i \in 1..n |-> xs[i] * ys[i]]) - sx * sy
    IN DegToVec(RoundDiv(Atan2(2 * dxy, dx2 - dy2), 2))

\* TrackSmoother._compute_regression_heading
\* The fitted direction v turned to point along the displacement disp (line 120).
Oriented(v, disp) ==
    IF disp[1] * v[1] + disp[2] * v[2] < 0 THEN <<-v[1], -v[2]>> ELSE v

ComputeRegressionHeading(ph) ==
    IF Len(ph) < 3 THEN None
    ELSE IF Dist2(Last(ph), ph[1]) < MinRegressionPx * MinRegressionPx THEN None
    ELSE Some(VecToDeg(Oriented(FitLine(ph),
                                <<Last(ph)[1] - ph[1][1], Last(ph)[2] - ph[1][2]>>)))

\* Adaptive alpha of _smooth_heading: alpha_min + (alpha_max - alpha_min) *
\* min(1, (speed_kmh / 3.6) / speed_ref), in 1/AlphaScale.
AdaptiveAlpha(speed) ==
    LET ref == (HSpeedRef * 36 * SpeedScale) \div 10
    IN HAlphaMin + ((HAlphaMax - HAlphaMin) * Min2(speed, ref)) \div ref

\* np.clip(delta, -max_jump, max_jump)
Clip(x, lo, hi) == IF x < lo THEN lo ELSE IF x > hi THEN hi ELSE x

\* ClampJump without the clamp.
ClampJumpOff(prev_deg, target) == target

\* The jump clamp of _smooth_heading (lines 149-154): the target heading, moved
\* no more than heading_max_jump from the previous heading.
ClampJump(prev_deg, target) ==
    LET delta    == AngDiff(target, prev_deg)
        max_jump == HeadingMaxJump * AngPerDeg
    IN IF Abs(delta) > max_jump
       THEN PyMod(prev_deg + Clip(delta, -max_jump, max_jump) + FullTurn, FullTurn)
       ELSE target

\* TrackSmoother._smooth_heading: the new velocity_vec_state, the new
\* heading_vec_state and the returned heading.
\* Velocity smoothing of _smooth_heading (lines 127-133): the new
\* velocity_vec_state from the old one and the raw heading vector.
VelocityLowPass(vel, curr_vec) ==
    IF IsNone(vel) THEN curr_vec ELSE Normalize(Blend(VelAlpha, curr_vec, vel))

\* The heading _smooth_heading returns (lines 135-154) from the stored heading
\* vector and the smoothed velocity vector.
SmoothedDeg(head, curr_vec, speed) ==
    IF IsNone(head) THEN VecToDeg(curr_vec)
    ELSE ClampJump(VecToDeg(head),
                   VecToDeg(Normalize(Blend(AdaptiveAlpha(speed), curr_vec, head))))

\* The fields _smooth_heading leaves (lines 136, 156-157) and its result.
HeadingStored(head, curr_vec, deg) ==
    [vel |-> curr_vec, head |-> IF IsNone(head) THEN curr_vec ELSE DegToVec(deg),
     deg |-> deg]

SmoothHeadingFrom(head, curr_vec, speed) ==
    HeadingStored(head, curr_vec, SmoothedDeg(head, curr_vec, speed))

SmoothHeading(vel, head, raw_deg, speed) ==
    SmoothHeadingFrom(head, VelocityLowPass(vel, DegToVec(raw_deg)), speed)

\* ApplySnapping pushing the heading away from the guideline (sign slip).
ApplySnappingAway(current_heading, svg_heading) ==
    LET diff == AngDiff(current_heading, svg_heading)
    IN IF Abs(diff) < SnapThresh * AngPerDeg
       THEN PyMod(current_heading + RoundDiv(diff * SnapPull, 100) + FullTurn, FullTurn)
       ELSE current_heading

\* TrackSmoother._apply_snapping
ApplySnapping(current_heading, svg_heading) ==
    LET diff == AngDiff(current_heading, svg_heading)
    IN IF Abs(diff) < SnapThresh * AngPerDeg
       THEN PyMod(current_heading - RoundDiv(diff * SnapPull, 100) + FullTurn, FullTurn)
       ELSE current_heading

\* "speed_kmh": self.speed_state if self.speed_state else 0.0
RetSpeed(ss) == IF IsNone(ss) \/ ss = Some(0) THEN 0 ELSE Val(ss)

\* _vec_to_deg(heading_vec_state) if heading_vec_state is not None else None
RetHeading(head) == IF IsNone(head) THEN None ELSE Some(VecToDeg(head))

\* HeadingBranch preferring the guideline heading to the stored heading.
HeadingBranchGuidelineFirst(fresh, head, svg) ==
    IF fresh THEN 1
    ELSE IF ~IsNone(svg) THEN 3
    ELSE IF ~IsNone(head) THEN 2
    ELSE 4

\* The heading decision of update (lines 76-93): 1 a freshly smoothed heading,
\* 2 the stored heading, 3 the guideline heading as default, 4 no heading.
HeadingBranch(fresh, head, svg) ==
    IF fresh THEN 1
    ELSE IF ~IsNone(head) THEN 2
    ELSE IF ~IsNone(svg) THEN 3
    ELSE 4

\* RawSpeed taking a dt that is not positive for the time of one frame.
RawSpeedClampedDt(ph, dt, ppm) ==
    IF Len(ph) >= 2
    THEN SpeedKmh(Dist2(Last(ph), ph[Len(ph) - 1]), IF dt > 0 THEN dt ELSE 100, ppm)
    ELSE 0

\* The raw speed and raw heading of update (lines 52-66) from the regression
\* window after the append.
RawSpeed(ph, dt, ppm) ==
    IF dt > 0 /\ Len(ph) >= 2
    THEN SpeedKmh(Dist2(Last(ph), ph[Len(ph) - 1]), dt, ppm)
    ELSE 0

\* The direction of the last step preferred to the regression heading.
RegressionOrStepBearingFirst(reg_heading, curr, prev) ==
    IF 4 * Dist2(curr, prev) > 1
    THEN Some(PyMod(Atan2(curr[2] - prev[2], curr[1] - prev[1]) + FullTurn, FullTurn))
    ELSE reg_heading

\* Lines 61-66: the regression heading, or the direction of the last step when
\* there is none and the step is longer than half a pixel.
RegressionOrStep(reg_heading, curr, prev) ==
    IF ~IsNone(reg_heading) THEN reg_heading
    ELSE IF 4 * Dist2(curr, prev) > 1
         THEN Some(PyMod(Atan2(curr[2] - prev[2], curr[1] - prev[1]) + FullTurn, FullTurn))
         ELSE None

RawHeading(ph, dt) ==
    IF dt > 0 /\ Len(ph) >= 2
    THEN RegressionOrStep(ComputeRegressionHeading(ph), Last(ph), ph[Len(ph) - 1])
    ELSE None

\* Gated recording the rejected position in the regression window.
GatedRecording(s, p, dt, svg) ==
    [speed_state |-> s.speed_state, heading_vec_state |-> s.heading_vec_state,
     velocity_vec_state |-> s.velocity_vec_state,
     pos_history |-> Append(s.pos_history, p), jitter_hist |-> s.jitter_hist,
     ret |-> [speed_kmh |-> RetSpeed(s.speed_state),
              heading |-> RetHeading(s.heading_vec_state),
              default_heading |-> FALSE],
     call |-> [pos |-> p, dt |-> dt, svg |-> svg, gated |-> TRUE,
               is_jittering |-> FALSE, raw_speed |-> 0, raw_heading |-> None,
               smoothed |-> None, branch |-> 0]]

\* Gated flagging the stored heading as a default when a guideline is given.
GatedFlagsDefault(s, p, dt, svg) ==
    [speed_state |-> s.speed_state, heading_vec_state |-> s.heading_vec_state,
     velocity_vec_state |-> s.velocity_vec_state,
     pos_history |-> s.pos_history, jitter_hist |-> s.jitter_hist,
     ret |-> [speed_kmh |-> RetSpeed(s.speed_state),
              heading |-> RetHeading(s.heading_vec_state),
              default_heading |-> ~IsNone(svg)],
     call |-> [pos |-> p, dt |-> dt, svg |-> svg, gated |-> TRUE,
               is_jittering |-> FALSE, raw_speed |-> 0, raw_heading |-> None,
               smoothed |-> None, branch |-> 0]]

\* update returning at the speed gate (lines 41-45): nothing stored.
Gated(s, p, dt, svg) ==
    [speed_state |-> s.speed_state, heading_vec_state |-> s.heading_vec_state,
     velocity_vec_state |-> s.velocity_vec_state,
     pos_history |-> s.pos_history, jitter_hist |-> s.jitter_hist,
     ret |-> [speed_kmh |-> RetSpeed(s.speed_state),
              heading |-> RetHeading(s.heading_vec_state),
              default_heading |-> FALSE],
     call |-> [pos |-> p, dt |-> dt, svg |-> svg, gated |-> TRUE,
               is_jittering |-> FALSE, raw_speed |-> 0, raw_heading |-> None,
               smoothed |-> None, branch |-> 0]]

\* The heading update returns (lines 76-93) by the branch taken.
FinalHeading(branch, sh, head, svg) ==
    CASE branch = 1 -> IF ~IsNone(svg) THEN Some(ApplySnapping(sh.deg, Val(svg)))
                       ELSE Some(sh.deg)
      [] branch = 2 -> Some(VecToDeg(head))
      [] branch = 3 -> svg
      [] OTHER      -> None

\* Lines 76-99 of update: the heading decision and the returned record, given
\* the windows after the append, the jitter flag, the raw speed and heading, the
\* new smoothed speed and what _smooth_heading would give (sh, used when fresh).
Decided(s, p, dt, svg, ph, jh, jit, raw, rawh, fresh, speed, sh, branch) ==
    [speed_state |-> Some(speed),
     heading_vec_state |-> IF fresh THEN sh.head ELSE s.heading_vec_state,
     velocity_vec_state |-> IF fresh THEN sh.vel ELSE s.velocity_vec_state,
     pos_history |-> ph, jitter_hist |-> jh,
     ret |-> [speed_kmh |-> RetSpeed(Some(speed)),
              heading |-> FinalHeading(branch, sh, s.heading_vec_state, svg),
              default_heading |-> (branch = 3)],
     call |-> [pos |-> p, dt |-> dt, svg |-> svg, gated |-> FALSE,
               is_jittering |-> jit, raw_speed |-> raw, raw_heading |-> rawh,
               smoothed |-> IF fresh THEN Some(sh.deg) ELSE None,
               branch |-> branch]]

\* Lines 68-76 of update: speed smoothing and the test of the heading update.
Measured(s, p, dt, svg, ph, jh, jit, raw, rawh, fresh) ==
    Decided(s, p, dt, svg, ph, jh, jit, raw, rawh, fresh,
            SmoothSpeed(s.speed_state, raw),
            SmoothHeading(s.velocity_vec_state, s.heading_vec_state, Val(rawh), raw),
            HeadingBranch(fresh, s.heading_vec_state, svg))

\* Appended skipping the heading update when a guideline heading is given.
AppendedUnlessGuideline(s, p, dt, ppm, svg, ph, jh, jit, raw, rawh) ==
    Measured(s, p, dt, svg, ph, jh, jit, raw, rawh,
             raw > HeadingMinSpeed /\ ~jit /\ ~IsNone(rawh) /\ IsNone(svg))

\* Lines 50-66 of update, after the appends to the two windows.
Appended(s, p, dt, ppm, svg, ph, jh, jit, raw, rawh) ==
    Measured(s, p, dt, svg, ph, jh, jit, raw, rawh,
             raw > HeadingMinSpeed /\ ~jit /\ ~IsNone(rawh))

Accepted(s, p, dt, ppm, svg, ph, jh) ==
    Appended(s, p, dt, ppm, svg, ph, jh,
             CheckJitter(jh, ppm), RawSpeed(ph, dt, ppm), RawHeading(ph, dt))

\* TrackSmoother.update on smoother state s: the state after the call, the
\* returned record ret and the call's inputs and locals.
UpdateStep(s, p, dt, ppm, svg) ==
    IF SpeedGate(s.pos_history, p, dt, ppm)
    THEN Gated(s, p, dt, svg)
    ELSE Accepted(s, p, dt, ppm, svg,
                  PushBounded(s.pos_history, p, RegWin),
                  PushBounded(s.jitter_hist, p, JitterFrames))
\* ------------------------------------------------------ TrackSmoother state

VARIABLES
    speed_state,         \* TrackSmoother.speed_state: None or the smoothed speed
    heading_vec_state,   \* TrackSmoother.heading_vec_state: None or a unit vector
    velocity_vec_state,  \* TrackSmoother.velocity_vec_state: None or a unit vector
    pos_history,         \* TrackSmoother.pos_history, oldest first
    jitter_hist,         \* TrackSmoother.jitter_hist, oldest first
    ret,                 \* the record the last update call returned
    call,                \* the last update call's arguments and locals
    pos,                 \* the position the caller supplied last
    n,                   \* number of update calls so far
    scen,                \* the caller's script: which positions it feeds
    par,                 \* a GProjection's parallax parameters and one point's trip
    gp,                  \* a GProjection under construction: its config and outcome
    parser,              \* a guideline layout, the SVGParser made of it, one lookup
    geo,                 \* a GProjection's geometry and one box or footprint mapped
    session,             \* InferenceSession._process_pipeline: its per-track state
    tab                  \* InferenceTab: the batch, its workers and the GUI event queue

smootherVars == <<speed_state, heading_vec_state, velocity_vec_state, pos_history,
                  jitter_hist, ret, call, pos, n, scen>>

\* The smoother's fields as one record.
Smoother ==
    [speed_state |-> speed_state, heading_vec_state |-> heading_vec_state,
     velocity_vec_state |-> velocity_vec_state,
     pos_history |-> pos_history, jitter_hist |-> jitter_hist]

NoCall ==
    [pos |-> <<0, 0>>, dt |-> 0, svg |-> None, gated |-> FALSE, is_jittering |-> FALSE,
     raw_speed |-> 0, raw_heading |-> None, smoothed |-> None, branch |-> 0]

\* TrackSmoother.__init__
SmootherInit ==
    /\ speed_state = None
    /\ heading_vec_state = None
    /\ velocity_vec_state = None
    /\ pos_history = <<>>
    /\ jitter_hist = <<>>
    /\ ret = [speed_kmh |-> 0, heading |-> None, default_heading |-> FALSE]
    /\ call = NoCall
    /\ pos = <<0, 0>>
    /\ n = 0

\* One call update(p, dt, PxPerM, svg).
Update(p, dt, svg) ==
    \E r \in {UpdateStep(Smoother, p, dt, PxPerM, svg)} :
       /\ speed_state' = r.speed_state
       /\ heading_vec_state' = r.heading_vec_state
       /\ velocity_vec_state' = r.velocity_vec_state
       /\ pos_history' = r.pos_history
       /\ jitter_hist' = r.jitter_hist
       /\ ret' = r.ret
       /\ call' = r.call
       /\ pos' = p
       /\ n' = n + 1

\* -------------------------------------------------- variables left alone

ParIdle == [phase |-> "idle"]

GpIdle == [phase |-> "idle"]

ParserIdle == [phase |-> "idle"]

GeoIdle == [phase |-> "idle"]

SessionIdle == [phase |-> "idle"]

TabIdle == [phase |-> "idle"]

ScenIdle == [kind |-> "none"]

vars == <<speed_state, heading_vec_state, velocity_vec_state, pos_history,
          jitter_hist, ret, call, pos, n, scen, par, gp, parser, geo, session, tab>>

\* ------------------------------------------ Spec: a caller feeding any track

\* Number of update calls of one run.
MaxUpdates == 4

\* Displacements between consecutive supplied positions, pixels: standing,
\* driving east, driving north, and a teleport.
Moves == {<<0, 0>>, <<9, 0>>, <<0, 9>>, <<60, 0>>}

\* dt of a call, milliseconds.
DtSet == {0, 100}

\* Guideline headings handed to a call: none, or an angle in model units.
SvgSet == {None, Some(150), Some(3550)}

Step(move, dt, svg) ==
    /\ n < MaxUpdates
    /\ Update(<<pos[1] + move[1], pos[2] + move[2]>>, dt, svg)
    /\ UNCHANGED <<scen, par, gp, parser, geo, session, tab>>

Init ==
    /\ SmootherInit
    /\ tab = TabIdle
    /\ scen = [kind |-> "free"]
    /\ par = ParIdle
    /\ gp = GpIdle
    /\ parser = ParserIdle
    /\ geo = GeoIdle
    /\ session = SessionIdle

Next == \E move \in Moves, dt \in DtSet, svg \in SvgSet : Step(move, dt, svg)

Spec == Init /\ [][Next]_vars

\* ------------------- SpecRev: a track that drives, turns round and drives back

\* Update calls before the turn (the regression window fills).
FwdUpdates == 9

\* Update calls after the turn.
BackUpdates == 60

\* dt of every call of the scripted runs, milliseconds.
FrameDt == 100

\* The scripted runs: the displacement per call before and after the turn.
\* back = -fwd is a reversal by exactly 180 degrees.
RevRuns ==
    { [fwd |-> <<14, 14>>, back |-> <<-14, -14>>],
      [fwd |-> <<20, 0>>, back |-> <<-20, 3>>],
      [fwd |-> <<0, 20>>, back |-> <<-4, -20>>] }

\* Guideline headings of the scripted runs.
RevSvgSet == {None, Some(900)}

InitRev ==
    /\ SmootherInit
    /\ tab = TabIdle
    /\ \E r \in RevRuns :
          scen = [kind |-> "rev", fwd |-> r.fwd, back |-> r.back, phase |-> "fwd",
                  k |-> 0, ref |-> None]
    /\ par = ParIdle
    /\ gp = GpIdle
    /\ parser = ParserIdle
    /\ geo = GeoIdle
    /\ session = SessionIdle

Forward(svg) ==
    /\ scen.phase = "fwd"
    /\ scen.k < FwdUpdates
    /\ Update(<<pos[1] + scen.fwd[1], pos[2] + scen.fwd[2]>>, FrameDt, svg)
    /\ scen' = [scen EXCEPT !.k = @ + 1]
    /\ UNCHANGED <<par, gp, parser, geo, session, tab>>

\* The track turns round: from now on it is fed the displacement back.  ref
\* keeps the heading the smoother held at the turn.
Turn ==
    /\ scen.phase = "fwd"
    /\ scen.k = FwdUpdates
    /\ scen' = [scen EXCEPT !.phase = "back", !.k = 0, !.ref = RetHeading(heading_vec_state)]
    /\ UNCHANGED <<speed_state, heading_vec_state, velocity_vec_state, pos_history,
                   jitter_hist, ret, call, pos, n, par, gp, parser, geo, session, tab>>

Backward(svg) ==
    /\ scen.phase = "back"
    /\ scen.k < BackUpdates
    /\ Update(<<pos[1] + scen.back[1], pos[2] + scen.back[2]>>, FrameDt, svg)
    /\ scen' = [scen EXCEPT !.k = @ + 1]
    /\ UNCHANGED <<par, gp, parser, geo, session, tab>>

NextRev ==
    \/ \E svg \in RevSvgSet : Forward(svg)
    \/ Turn
    \/ \E svg \in RevSvgSet : Backward(svg)

SpecRev == InitRev /\ [][NextRev]_vars

\* ----------------- SpecJit: a track that drives, stops and jitters in place

\* Update calls while driving.
DriveUpdates == 3

\* Update calls while standing.
StandUpdates == 9

\* Displacement per call while driving, pixels.
DriveMove == <<9, 0>>

\* Offsets of the supplied position from the stopping point while standing; all
\* lie within the jitter radius of one another.
JitterOffsets == {<<0, 0>>, <<2, 0>>, <<-1, 2>>}

\* Guideline headings of the jitter runs.
JitSvgSet == {None, Some(100)}

InitJit ==
    /\ SmootherInit
    /\ tab = TabIdle
    /\ scen = [kind |-> "jit", phase |-> "drive", k |-> 0, anchor |-> <<0, 0>>]
    /\ par = ParIdle
    /\ gp = GpIdle
    /\ parser = ParserIdle
    /\ geo = GeoIdle
    /\ session = SessionIdle

Drive(svg) ==
    /\ scen.phase = "drive"
    /\ scen.k < DriveUpdates
    /\ Update(<<pos[1] + DriveMove[1], pos[2] + DriveMove[2]>>, FrameDt, svg)
    /\ scen' = [scen EXCEPT !.k = @ + 1]
    /\ UNCHANGED <<par, gp, parser, geo, session, tab>>

\* The track stops where it is.
Stop ==
    /\ scen.phase = "drive"
    /\ scen.k = DriveUpdates
    /\ scen' = [scen EXCEPT !.phase = "stand", !.k = 0, !.anchor = pos]
    /\ UNCHANGED <<speed_state, heading_vec_state, velocity_vec_state, pos_history,
                   jitter_hist, ret, call, pos, n, par, gp, parser, geo, session, tab>>

Stand(off, svg) ==
    /\ scen.phase = "stand"
    /\ scen.k < StandUpdates
    /\ Update(<<scen.anchor[1] + off[1], scen.anchor[2] + off[2]>>, FrameDt, svg)
    /\ scen' = [scen EXCEPT !.k = @ + 1]
    /\ UNCHANGED <<par, gp, parser, geo, session, tab>>

NextJit ==
    \/ \E svg \in JitSvgSet : Drive(svg)
    \/ Stop
    \/ \E off \in JitterOffsets, svg \in JitSvgSet : Stand(off, svg)

SpecJit == InitJit /\ [][NextJit]_vars


\* ------------------------- SpecDt: calls whose dt is negative, zero or positive

\* Update calls of a run.
MaxDtUpdates == 4

\* Driving east and a teleport.
DtMoves == {<<9, 0>>, <<60, 0>>}

\* dt of a call, milliseconds.
SignedDtSet == {-50, 0, 100}

DtSvgSet == {None, Some(150)}

InitDt ==
    /\ SmootherInit
    /\ tab = TabIdle
    /\ scen = [kind |-> "dt"]
    /\ par = ParIdle
    /\ gp = GpIdle
    /\ parser = ParserIdle
    /\ geo = GeoIdle
    /\ session = SessionIdle

StepDt(move, dt, svg) ==
    /\ n < MaxDtUpdates
    /\ Update(<<pos[1] + move[1], pos[2] + move[2]>>, dt, svg)
    /\ UNCHANGED <<scen, par, gp, parser, geo, session, tab>>

NextDt == \E move \in DtMoves, dt \in SignedDtSet, svg \in DtSvgSet : StepDt(move, dt, svg)

SpecDt == InitDt /\ [][NextDt]_vars

\* ------------------ SpecRaw: steps of a pixel or two, forwards and backwards

\* Update calls of a run.
MaxRawUpdates == 4

\* Standing, one pixel east, one pixel west, two pixels north.
RawMoves == {<<0, 0>>, <<1, 0>>, <<-1, 0>>, <<0, 2>>}

InitRaw ==
    /\ SmootherInit
    /\ tab = TabIdle
    /\ scen = [kind |-> "raw"]
    /\ par = ParIdle
    /\ gp = GpIdle
    /\ parser = ParserIdle
    /\ geo = GeoIdle
    /\ session = SessionIdle

StepRaw(move, dt) ==
    /\ n < MaxRawUpdates
    /\ Update(<<pos[1] + move[1], pos[2] + move[2]>>, dt, None)
    /\ UNCHANGED <<scen, par, gp, parser, geo, session, tab>>

NextRaw == \E move \in RawMoves, dt \in DtSet : StepRaw(move, dt)

SpecRaw == InitRaw /\ [][NextRaw]_vars

\* --------------- SpecWin: a long run of ordinary steps and implausible jumps

\* Update calls of a run.
MaxWinUpdates == 10

\* An ordinary step, a step of 198 km/h and a jump of 216 km/h at FrameDt, from
\* the last accepted position.
WinMoves == {<<9, 0>>, <<55, 0>>, <<60, 0>>}

\* scen.accepted lists the positions of the calls that got past the gate.
InitWin ==
    /\ SmootherInit
    /\ tab = TabIdle
    /\ scen = [kind |-> "win", accepted |-> <<>>]
    /\ par = ParIdle
    /\ gp = GpIdle
    /\ parser = ParserIdle
    /\ geo = GeoIdle
    /\ session = SessionIdle

\* The observations are offsets from the last accepted position.
WinBase == IF Len(pos_history) > 0 THEN Last(pos_history) ELSE pos

StepWin(move) ==
    /\ n < MaxWinUpdates
    /\ Update(<<WinBase[1] + move[1], WinBase[2] + move[2]>>, FrameDt, None)
    /\ scen' = [scen EXCEPT !.accepted =
                   IF call'.gated THEN @ ELSE Append(@, call'.pos)]
    /\ UNCHANGED <<par, gp, parser, geo, session, tab>>

NextWin == \E move \in WinMoves : StepWin(move)

SpecWin == InitWin /\ [][NextWin]_vars

\* ------------------------------------------------- GProjection: parallax
\* Heights are in millimetres; map coordinates are exact fractions <<num, den>>
\* with den > 0 in lowest terms, so that "equal up to rounding" is equality.

RECURSIVE GCD(_, _)
GCD(a, b) == IF b = 0 THEN a ELSE GCD(b, a % b)

Frac(num, den) ==
    LET g == GCD(Abs(num), Abs(den))
        s == IF den < 0 THEN -1 ELSE 1
    IN <<(s * num) \div g, (s * den) \div g>>

FracInt(i) == <<i, 1>>

FAdd(a, b) == Frac(a[1] * b[2] + b[1] * a[2], a[2] * b[2])

FSub(a, b) == Frac(a[1] * b[2] - b[1] * a[2], a[2] * b[2])

FMul(a, b) == Frac(a[1] * b[1], a[2] * b[2])

\* A pixel point as a point of fractions.
FracPt(p) == <<FracInt(p[1]), FracInt(p[2])>>

\* C + (X - C) * factor, coordinate by coordinate (the numpy expression of
\* both parallax methods).
ScaleAbout(C, X, factor) ==
    [i \in 1..2 |-> FAdd(C[i], FMul(FSub(X[i], C[i]), factor))]

\* abs(self.z_cam - h) < 0.01, in millimetres.
ParallaxGuard == 10

\* The default of z_cam_meters, in millimetres.
ZCamDefault == 10 * 1000

\* ParallaxCorrect with the factor (z_cam + h) / z_cam (sign slip).
ParallaxCorrectPlus(z_cam, cam_sat, apparent_sat_pt, h) ==
    IF z_cam = 0 THEN apparent_sat_pt
    ELSE ScaleAbout(cam_sat, apparent_sat_pt, Frac(z_cam + h, z_cam))

\* GProjection.parallax_correct_ground_to_real
ParallaxCorrect(z_cam, cam_sat, apparent_sat_pt, h) ==
    IF z_cam = 0 THEN apparent_sat_pt
    ELSE ScaleAbout(cam_sat, apparent_sat_pt, Frac(z_cam - h, z_cam))

\* ParallaxProject reusing the factor of the correction, (z_cam - h) / z_cam.
ParallaxProjectSameFactor(z_cam, cam_sat, real_sat_pt, h) ==
    IF Abs(z_cam - h) < ParallaxGuard THEN real_sat_pt
    ELSE ScaleAbout(cam_sat, real_sat_pt, Frac(z_cam - h, z_cam))

\* ParallaxProject with the z_cam == 0 early return of the correction.
ParallaxProjectZeroGuard(z_cam, cam_sat, real_sat_pt, h) ==
    IF z_cam = 0 \/ Abs(z_cam - h) < ParallaxGuard THEN real_sat_pt
    ELSE ScaleAbout(cam_sat, real_sat_pt, Frac(z_cam, z_cam - h))

\* GProjection.parallax_project_real_to_ground
ParallaxProject(z_cam, cam_sat, real_sat_pt, h) ==
    IF Abs(z_cam - h) < ParallaxGuard THEN real_sat_pt
    ELSE ScaleAbout(cam_sat, real_sat_pt, Frac(z_cam, z_cam - h))

\* ------------------------------------ SpecPar: correct a point, project it back

ZCams == {0, 40, ZCamDefault}

Heights == {0, 3, 35, 1600, 9995, 10000, 12000}

CamPoints == {<<0, 0>>, <<30, -20>>}

MapPoints == {<<100, 0>>, <<-40, 70>>, <<30, -20>>}

InitPar ==
    /\ SmootherInit
    /\ tab = TabIdle
    /\ scen = ScenIdle
    /\ gp = GpIdle
    /\ parser = ParserIdle
    /\ geo = GeoIdle
    /\ session = SessionIdle
    /\ \E z \in ZCams, h \in Heights, c \in CamPoints, p \in MapPoints :
          par = [phase |-> "in", z_cam |-> z, h |-> h, cam_sat |-> FracPt(c),
                 pt |-> FracPt(p), real |-> <<>>, back |-> <<>>]

Correct ==
    /\ par.phase = "in"
    /\ par' = [par EXCEPT !.phase = "real",
                          !.real = ParallaxCorrect(par.z_cam, par.cam_sat, par.pt, par.h)]
    /\ UNCHANGED <<smootherVars, gp, parser, geo, session, tab>>

Project ==
    /\ par.phase = "real"
    /\ par' = [par EXCEPT !.phase = "back",
                          !.back = ParallaxProject(par.z_cam, par.cam_sat, par.real, par.h)]
    /\ UNCHANGED <<smootherVars, gp, parser, geo, session, tab>>

NextPar == Correct \/ Project

SpecPar == InitPar /\ [][NextPar]_vars

\* --------------------------------------------- GProjection: construction
\* A configuration gives K, D and H as what np.array(..., dtype=float64) meets:
\* "missing" (the key is absent, .get returns None, np.array(None) is the 0-d
\* array nan), "text" (a value that is no number: np.array raises ValueError),
\* or numbers ("matrix", "vector").  H is a record of its kind and, when it
\* holds numbers, its 3x3 integer matrix m.

Det3(m) ==
      m[1][1] * (m[2][2] * m[3][3] - m[2][3] * m[3][2])
    - m[1][2] * (m[2][1] * m[3][3] - m[2][3] * m[3][1])
    + m[1][3] * (m[2][1] * m[3][2] - m[2][2] * m[3][1])

\* np.array(value, dtype=np.float64) by the kind of the value: "ValueError",
\* or the kind of array made.
NpArray(kind) ==
    IF kind = "text" THEN "ValueError"
    ELSE IF kind = "missing" THEN "nan"
    ELSE kind

\* np.linalg.inv(H): LinAlgError for the 0-d array and for a matrix whose
\* elimination meets a zero pivot (the singular matrices of HCfgs eliminate
\* exactly), the inverse otherwise.
LinalgInv(H, m) ==
    IF H = "nan" THEN "LinAlgError"
    ELSE IF Det3(m) = 0 THEN "LinAlgError"
    ELSE "inverse"

\* GProjection._init_matrices: the exception raised, or the fields set.
InitMatrices(config) ==
    LET K == NpArray(config.K)
        D == NpArray(config.D)
        H == NpArray(config.H.kind)
    IN IF K = "ValueError" \/ D = "ValueError" \/ H = "ValueError"
       THEN [raised |-> "ValueError"]
       ELSE IF LinalgInv(H, config.H.m) = "LinAlgError"
       THEN [raised |-> "LinAlgError"]
       ELSE [raised |-> "none", K |-> K, D |-> D, P |-> K, H |-> config.H.m]

\* GProjection._init_parallax: z_cam in millimetres, px_per_m in thousandths.
InitParallax(config) ==
    LET ppm == IF IsNone(config.px_per_meter) THEN 1000 ELSE Val(config.px_per_meter)
    IN [z_cam    |-> IF IsNone(config.z_cam_meters) THEN ZCamDefault
                     ELSE Val(config.z_cam_meters),
        px_per_m |-> IF ppm <= 1 THEN 1000 ELSE ppm]

\* GProjection._init_svg: whether an SVGParser is made.
InitSvg(config) == config.use_svg /\ ~IsNone(config.layout_path)

\* GProjection.__init__
GProjectionInit(config) ==
    LET m == InitMatrices(config)
    IN IF m.raised # "none"
       THEN [outcome |-> m.raised, inst |-> None]
       ELSE [outcome |-> "constructed",
             inst |-> Some([m |-> m, p |-> InitParallax(config),
                            svg_parser |-> InitSvg(config)])]

\* ------------------------------------------ SpecInit: construct from a config

KCfgs == {"missing", "text", "matrix"}

DCfgs == {"missing", "vector"}

HMatrices == {<<<<1, 0, 0>>, <<0, 1, 0>>, <<0, 0, 1>>>>,
              <<<<2, 0, 10>>, <<0, 2, 20>>, <<0, 0, 1>>>>,
              <<<<0, 0, 0>>, <<0, 0, 0>>, <<0, 0, 0>>>>,
              <<<<1, 2, 3>>, <<2, 4, 6>>, <<0, 0, 1>>>>}

HCfgs == {[kind |-> "missing", m |-> <<>>], [kind |-> "text", m |-> <<>>]}
         \cup {[kind |-> "matrix", m |-> m] : m \in HMatrices}

PpmCfgs == {None, Some(0), Some(12000)}

ZCamCfgs == {None, Some(8000)}

InitInit ==
    /\ SmootherInit
    /\ tab = TabIdle
    /\ scen = ScenIdle
    /\ par = ParIdle
    /\ parser = ParserIdle
    /\ geo = GeoIdle
    /\ session = SessionIdle
    /\ \E k \in KCfgs, d \in DCfgs, h \in HCfgs, ppm \in PpmCfgs, z \in ZCamCfgs,
          svg \in BOOLEAN, path \in {None, Some("layout.svg")} :
          gp = [phase |-> "config",
                config |-> [K |-> k, D |-> d, H |-> h, px_per_meter |-> ppm,
                            z_cam_meters |-> z, use_svg |-> svg, layout_path |-> path],
                outcome |-> "none", inst |-> None]

Construct ==
    /\ gp.phase = "config"
    /\ \E r \in {GProjectionInit(gp.config)} :
          gp' = [gp EXCEPT !.phase = "done", !.outcome = r.outcome, !.inst = r.inst]
    /\ UNCHANGED <<smootherVars, par, parser, geo, session, tab>>

NextInit == Construct

SpecInit == InitInit /\ [][NextInit]_vars

\* ------------------------------------------------------------- SVGParser
\* A parsed layout is the sequence of its elements in document order
\* (ElementTree's iter()), each with the index of its parent (0 for the root),
\* its tag split at '}', its id ("" when it has none), the operators of its
\* transform attribute and its points.  Coordinates are integers and rotations
\* are by multiples of 90 degrees, so every transform is a 3x3 integer matrix.

Identity3 == <<<<1, 0, 0>>, <<0, 1, 0>>, <<0, 0, 1>>>>

\* A @ B for 3x3 matrices.
MatMul(A, B) ==
    [i \in 1..3 |-> [j \in 1..3 |-> A[i][1] * B[1][j] + A[i][2] * B[2][j] + A[i][3] * B[3][j]]]

\* The first two coordinates of M @ (x, y, 1).
MatApply(M, p) ==
    <<M[1][1] * p[1] + M[1][2] * p[2] + M[1][3], M[2][1] * p[1] + M[2][2] * p[2] + M[2][3]>>

Translation(tx, ty) == <<<<1, 0, tx>>, <<0, 1, ty>>, <<0, 0, 1>>>>

\* [[c, -s], [s, c]] from the cosine and sine scaled by TrigScale.
RotationOf(c, s) ==
    <<<<c \div TrigScale, -(s \div TrigScale), 0>>,
      <<s \div TrigScale, c \div TrigScale, 0>>,
      <<0, 0, 1>>>>

\* The rotation by an angle in whole degrees (a multiple of 90).
Rotation(deg) == RotationOf(Cos(deg * AngPerDeg), Sin(deg * AngPerDeg))

\* T1 and T2 of rotate(deg, cx, cy); the identity for rotate(deg).
Pivot(vals, sign) ==
    IF Len(vals) = 3 THEN Translation(sign * vals[2], sign * vals[3]) ELSE Identity3

\* The matrix T of one transform operator; a name that is none of the three
\* leaves T the identity.
OpMatrix(op) ==
    IF op.name = "translate"
    THEN Translation(op.vals[1], IF Len(op.vals) > 1 THEN op.vals[2] ELSE 0)
    ELSE IF op.name = "rotate"
    THEN MatMul(MatMul(Pivot(op.vals, 1), Rotation(op.vals[1])), Pivot(op.vals, -1))
    ELSE IF op.name = "matrix"
    THEN <<<<op.vals[1], op.vals[3], op.vals[5]>>,
           <<op.vals[2], op.vals[4], op.vals[6]>>,
           <<0, 0, 1>>>>
    ELSE Identity3

RECURSIVE TransformFrom(_, _, _)
\* M @ T_k @ ... @ T_n for the operators ops[k..n].
TransformFrom(ops, k, M) ==
    IF k > Len(ops) THEN M ELSE TransformFrom(ops, k + 1, MatMul(M, OpMatrix(ops[k])))

\* SVGParser._parse_transform of a transform attribute given as its operators.
ParseTransform(ops) == TransformFrom(ops, 1, Identity3)

\* get_tag without the split: the whole tag, namespace included.
GetTagQualified(el) == IF Len(el.tag) = 1 THEN el.tag[1] ELSE "{" \o el.tag[1] \o "}" \o el.tag[2]

\* el.tag.split('}')[-1]
GetTag(el) == el.tag[Len(el.tag)]

\* target_ids of _extract_segments.
TargetIds == {"Guidelines", "Physical"}

\* The children of element i, in document order.
Children(doc, i) == SelectSeq([j \in 1..Len(doc) |-> j], LAMBDA j : doc[j].parent = i)

RECURSIVE OpenSegments(_, _, _)
\* (t_pts[k], t_pts[k+1]), ... ; src is the index of the element the segment
\* comes from, which the model keeps with it.
OpenSegments(t_pts, k, src) ==
    IF k >= Len(t_pts) THEN <<>>
    ELSE <<[a |-> t_pts[k], b |-> t_pts[k + 1], src |-> src]>>
         \o OpenSegments(t_pts, k + 1, src)

\* The segments of one element from its transformed points: consecutive pairs,
\* and the closing pair of a polygon.
ElementSegments(tag, t_pts, src) ==
    IF Len(t_pts) = 0 THEN <<>>
    ELSE OpenSegments(t_pts, 1, src)
         \o (IF tag = "polygon"
             THEN <<[a |-> t_pts[Len(t_pts)], b |-> t_pts[1], src |-> src]>>
             ELSE <<>>)

\* The points of a line, polygon or polyline through M_align @ curr_mat; no
\* points for any other tag.
TransformedPoints(el, curr_mat, M_align) ==
    IF GetTag(el) \in {"line", "polygon", "polyline"}
    THEN [k \in 1..Len(el.pts) |-> MatApply(M_align, MatApply(curr_mat, el.pts[k]))]
    ELSE <<>>

RECURSIVE ProcessAt(_, _, _, _, _)
RECURSIVE ProcessChildren(_, _, _, _, _)
RECURSIVE ProcessSiblings(_, _, _, _, _)
\* The recursion of _process_node below element i with its curr_mat: seg_list
\* after the element and its subtree, or raised when an attribute of the
\* element or of a descendant does not convert (el.bad).
ProcessAt(doc, i, curr_mat, M_align, seg_list) ==
    IF doc[i].bad THEN [raised |-> TRUE, segs |-> seg_list]
    ELSE ProcessChildren(doc, Children(doc, i), curr_mat, M_align,
                         seg_list \o ElementSegments(GetTag(doc[i]),
                             TransformedPoints(doc[i], curr_mat, M_align), i))

\* SVGParser._process_node
ProcessNode(doc, i, parent_mat, M_align, seg_list) ==
    ProcessAt(doc, i, MatMul(parent_mat, ParseTransform(doc[i].transform)), M_align, seg_list)

\* for child in element: self._process_node(child, curr_mat, seg_list)
ProcessChildren(doc, kids, curr_mat, M_align, seg_list) ==
    IF kids = <<>> THEN [raised |-> FALSE, segs |-> seg_list]
    ELSE ProcessSiblings(doc, Tail(kids), curr_mat, M_align,
                         ProcessNode(doc, Head(kids), curr_mat, M_align, seg_list))

\* The loop goes on to the next child unless the call on this one raised.
ProcessSiblings(doc, rest, curr_mat, M_align, r) ==
    IF r.raised THEN r ELSE ProcessChildren(doc, rest, curr_mat, M_align, r.segs)

\* The elements collected into target_nodes, in document order.
TargetNodes(doc) ==
    SelectSeq([j \in 1..Len(doc) |-> j],
              LAMBDA j : GetTag(doc[j]) = "g" /\ doc[j].id \in TargetIds)

RECURSIVE ProcessTargets(_, _, _, _)
\* for g in target_nodes: self._process_node(g, np.identity(3), segs)
ProcessTargets(doc, nodes, M_align, r) ==
    IF r.raised \/ nodes = <<>> THEN r
    ELSE ProcessTargets(doc, Tail(nodes), M_align,
                        ProcessNode(doc, Head(nodes), Identity3, M_align, r.segs))

\* SVGParser._extract_segments
ExtractSegments(doc, M_align) ==
    ProcessTargets(doc, TargetNodes(doc), M_align, [raised |-> FALSE, segs |-> <<>>])

\* self.M_align: the identity with its first two rows replaced by A.
AlignMatrix(A) == IF IsNone(A) THEN Identity3 ELSE <<Val(A)[1], Val(A)[2], <<0, 0, 1>>>>

\* The segments appended before the exception kept, and the index valid.
ParsedKeeping(r) == [valid |-> TRUE, orientation_segments |-> r.segs]

\* What the try block of __init__ leaves: the segments and valid when nothing
\* raised, no segment and not valid otherwise.
Parsed(r) ==
    IF r.raised THEN [valid |-> FALSE, orientation_segments |-> <<>>]
    ELSE [valid |-> TRUE, orientation_segments |-> r.segs]

\* SVGParser.__init__ on a file that exists or not; a file that ET.parse
\* rejects is a layout of None.
SVGParserInit(exists, layout, A) ==
    IF ~exists \/ IsNone(layout) THEN [valid |-> FALSE, orientation_segments |-> <<>>]
    ELSE Parsed(ExtractSegments(Val(layout), AlignMatrix(A)))

\* The reciprocal of the squared length 1e-6 below which a segment is skipped.
DegenerateDen == 1000 * 1000

Dot(u, v) == u[1] * v[1] + u[2] * v[2]

Sub(u, v) == <<u[1] - v[1], u[2] - v[2]>>

\* The squared distance from the point to sp1 + clip(t, 0, 1) * ab as an exact
\* fraction, with ap_ab = dot(ap, ab): t <= 0 gives sp1, t >= 1 gives sp2.
ClosestDistSq(ap, ab, ap_ab, ab_sq) ==
    IF ap_ab <= 0 THEN <<Dot(ap, ap), 1>>
    ELSE IF ap_ab >= ab_sq THEN <<Dot(Sub(ap, ab), Sub(ap, ab)), 1>>
    ELSE <<Dot(ap, ap) * ab_sq - ap_ab * ap_ab, ab_sq>>

\* d of one segment, squared.
SegmentDistSq(seg, pt) ==
    ClosestDistSq(Sub(pt, seg.a), Sub(seg.b, seg.a),
                  Dot(Sub(pt, seg.a), Sub(seg.b, seg.a)),
                  Dot(Sub(seg.b, seg.a), Sub(seg.b, seg.a)))

\* ab_sq < 1e-6
Degenerate(seg) == Dot(Sub(seg.b, seg.a), Sub(seg.b, seg.a)) * DegenerateDen < 1

\* d <= min_d: a segment as near as the best so far replaces it.
CloserOrEqual(d, min_d) == IsNone(min_d) \/ d[1] * Val(min_d)[2] <= Val(min_d)[1] * d[2]

\* d < min_d for squared distances, min_d None being float('inf').
Closer(d, min_d) == IsNone(min_d) \/ d[1] * Val(min_d)[2] < Val(min_d)[1] * d[2]

\* math.degrees(math.atan2(ab[1], ab[0]))
SegmentAngle(seg) == Atan2(seg.b[2] - seg.a[2], seg.b[1] - seg.a[1])

RECURSIVE NearestFrom(_, _, _, _, _)
RECURSIVE NearestStep(_, _, _, _, _, _)
\* The loop of get_nearest_heading from segment k on.
NearestFrom(segs, k, pt, min_d, best_ang) ==
    IF k > Len(segs) THEN best_ang
    ELSE IF Degenerate(segs[k]) THEN NearestFrom(segs, k + 1, pt, min_d, best_ang)
    ELSE NearestStep(segs, k, pt, min_d, best_ang, SegmentDistSq(segs[k], pt))

NearestStep(segs, k, pt, min_d, best_ang, d) ==
    IF Closer(d, min_d)
    THEN NearestFrom(segs, k + 1, pt, Some(d), Some(SegmentAngle(segs[k])))
    ELSE NearestFrom(segs, k + 1, pt, min_d, best_ang)

\* return (best_ang + 360) % 360, or None
NormalizedOrNone(best_ang) ==
    IF IsNone(best_ang) THEN None ELSE Some(PyMod(Val(best_ang) + FullTurn, FullTurn))

\* SVGParser.get_nearest_heading
GetNearestHeading(p, pt) ==
    IF ~p.valid \/ Len(p.orientation_segments) = 0 THEN None
    ELSE NormalizedOrNone(NearestFrom(p.orientation_segments, 1, pt, None, None))

\* GProjection._init_svg: svg_parser is None or the SVGParser of the layout.
SvgParserOf(config, exists, layout) ==
    IF InitSvg(config) THEN Some(SVGParserInit(exists, layout, config.A)) ELSE None

\* GProjection.get_svg_heading
GetSvgHeading(svg_parser, sat_pt) ==
    IF ~IsNone(svg_parser) /\ Val(svg_parser).valid
    THEN GetNearestHeading(Val(svg_parser), sat_pt)
    ELSE None

\* svg_h of the pipeline: get_svg_heading(sat_coords) if use_svg else None
SvgH(use_svg, svg_parser, sat_pt) ==
    IF use_svg THEN GetSvgHeading(svg_parser, sat_pt) ELSE None

\* ------------------------------- SpecSvg: load a layout, look one point up

SvgNs == "{http://www.w3.org/2000/svg"

\* An element of a layout.
El(parent, tag, id, transform, pts) ==
    [parent |-> parent, tag |-> tag, id |-> id, transform |-> transform, pts |-> pts,
     bad |-> FALSE]

\* A line whose x1 is not a number.
BadLine(parent) ==
    [parent |-> parent, tag |-> <<"line">>, id |-> "", transform |-> <<>>, pts |-> <<>>,
     bad |-> TRUE]

Op(name, vals) == [name |-> name, vals |-> vals]

\* The spec's scenario, with a line outside the group that is nearer to (5, 3).
LayoutScenario ==
    << El(0, <<"svg">>, "", <<>>, <<>>),
       El(1, <<"g">>, "Guidelines", <<>>, <<>>),
       El(2, <<"line">>, "", <<>>, <<<<0, 0>>, <<10, 0>>>>),
       El(1, <<"line">>, "", <<>>, <<<<5, 2>>, <<5, 8>>>>),
       El(1, <<"g">>, "Roads", <<>>, <<>>),
       El(5, <<"polyline">>, "", <<>>, <<<<3, 3>>, <<9, 9>>>>) >>

\* Two perpendicular segments from the origin, the horizontal one first.
LayoutPerpendicular ==
    << El(0, <<"svg">>, "", <<>>, <<>>),
       El(1, <<"g">>, "Guidelines", <<>>, <<>>),
       El(2, <<"line">>, "", <<>>, <<<<0, 0>>, <<10, 0>>>>),
       El(2, <<"line">>, "", <<>>, <<<<0, 0>>, <<0, 10>>>>) >>

\* The same with the vertical one first, in namespaced tags and two groups.
LayoutPerpendicularNs ==
    << El(0, <<SvgNs, "svg">>, "", <<>>, <<>>),
       El(1, <<SvgNs, "g">>, "Physical", <<>>, <<>>),
       El(2, <<SvgNs, "g">>, "", <<>>, <<>>),
       El(3, <<SvgNs, "line">>, "", <<>>, <<<<0, 0>>, <<0, 10>>>>),
       El(1, <<SvgNs, "g">>, "Guidelines", <<>>, <<>>),
       El(5, <<SvgNs, "polyline">>, "", <<>>, <<<<0, 0>>, <<10, 0>>>>) >>

\* Transforms on the group, on a group inside it and on the elements.
LayoutTransformed ==
    << El(0, <<"svg">>, "", <<>>, <<>>),
       El(1, <<"g">>, "Guidelines",
          <<Op("translate", <<10, 20>>), Op("rotate", <<90, 5, 5>>)>>, <<>>),
       El(2, <<"g">>, "", <<Op("scale", <<2>>), Op("translate", <<3>>)>>, <<>>),
       El(3, <<"polyline">>, "", <<Op("matrix", <<2, 0, 0, 2, 1, 1>>)>>,
          <<<<0, 0>>, <<4, 0>>, <<4, 3>>>>),
       El(2, <<"line">>, "", <<Op("rotate", <<180>>)>>, <<<<1, 0>>, <<6, 0>>>>) >>

\* The group inside a translated layer.
LayoutLayer ==
    << El(0, <<"svg">>, "", <<>>, <<>>),
       El(1, <<"g">>, "layer1", <<Op("translate", <<10, 0>>)>>, <<>>),
       El(2, <<"g">>, "Guidelines", <<>>, <<>>),
       El(3, <<"line">>, "", <<>>, <<<<0, 0>>, <<10, 0>>>>) >>

\* One named group inside the other.
LayoutNested ==
    << El(0, <<"svg">>, "", <<>>, <<>>),
       El(1, <<"g">>, "Guidelines", <<Op("translate", <<0, 10>>)>>, <<>>),
       El(2, <<"g">>, "Physical", <<>>, <<>>),
       El(3, <<"line">>, "", <<>>, <<<<0, 0>>, <<0, 10>>>>) >>

\* A line that does not convert after one that does.
LayoutBadLine ==
    << El(0, <<"svg">>, "", <<>>, <<>>),
       El(1, <<"g">>, "Guidelines", <<>>, <<>>),
       El(2, <<"line">>, "", <<>>, <<<<0, 0>>, <<10, 0>>>>),
       BadLine(2) >>

\* No group of a target id: another case, no id, another tag.
LayoutNoGroup ==
    << El(0, <<"svg">>, "Guidelines", <<>>, <<>>),
       El(1, <<"g">>, "guidelines", <<>>, <<>>),
       El(2, <<"line">>, "", <<>>, <<<<0, 0>>, <<10, 0>>>>),
       El(1, <<"g">>, "", <<>>, <<>>),
       El(4, <<"line">>, "", <<>>, <<<<0, 0>>, <<0, 10>>>>),
       El(1, <<"a">>, "Physical", <<>>, <<>>),
       El(6, <<"polygon">>, "", <<>>, <<<<0, 0>>, <<10, 0>>, <<0, 10>>>>) >>

\* A group without geometry.
LayoutEmptyGroup ==
    << El(0, <<"svg">>, "", <<>>, <<>>),
       El(1, <<"g">>, "Physical", <<>>, <<>>),
       El(2, <<"rect">>, "", <<>>, <<>>) >>

\* Only segments of no length: a line and a polygon of one point.
LayoutDegenerate ==
    << El(0, <<"svg">>, "", <<>>, <<>>),
       El(1, <<"g">>, "Physical", <<>>, <<>>),
       El(2, <<"line">>, "", <<>>, <<<<3, 3>>, <<3, 3>>>>),
       El(2, <<"polygon">>, "", <<>>, <<<<4, 4>>>>) >>

\* A triangle after a segment of no length.
LayoutPolygon ==
    << El(0, <<"svg">>, "", <<>>, <<>>),
       El(1, <<"g">>, "Physical", <<>>, <<>>),
       El(2, <<"line">>, "", <<>>, <<<<5, 3>>, <<5, 3>>>>),
       El(2, <<"polygon">>, "", <<>>, <<<<0, 0>>, <<10, 0>>, <<0, 10>>>>) >>

\* The layouts loaded; None is a file that is not XML.
Layouts ==
    {None, Some(LayoutScenario), Some(LayoutPerpendicular), Some(LayoutPerpendicularNs),
     Some(LayoutTransformed), Some(LayoutLayer), Some(LayoutNested), Some(LayoutBadLine),
     Some(LayoutNoGroup), Some(LayoutEmptyGroup), Some(LayoutDegenerate),
     Some(LayoutPolygon)}

\* layout_svg.A: absent, a translation, a quarter turn.
Aligns == {None, Some(<<<<1, 0, 100>>, <<0, 1, 50>>>>), Some(<<<<0, -1, 0>>, <<1, 0, 0>>>>)}

LayoutPaths == {None, Some("layout.svg")}

QueryPoints == {<<5, 3>>, <<3, 3>>, <<-4, 7>>, <<103, 53>>, <<12, 30>>}

InitSvgSpec ==
    /\ SmootherInit
    /\ tab = TabIdle
    /\ scen = ScenIdle
    /\ par = ParIdle
    /\ gp = GpIdle
    /\ parser = ParserIdle
    /\ geo = GeoIdle
    /\ session = SessionIdle

\* GProjection._init_svg on a config and a layout file.
LoadLayout ==
    /\ parser.phase = "idle"
    /\ \E use_svg \in BOOLEAN, layout_path \in LayoutPaths, A \in Aligns,
          exists \in BOOLEAN, layout \in Layouts :
          \E config \in {[use_svg |-> use_svg, layout_path |-> layout_path, A |-> A]} :
             parser' = [phase |-> "loaded", config |-> config, exists |-> exists,
                        layout |-> layout,
                        svg_parser |-> SvgParserOf(config, exists, layout)]
    /\ UNCHANGED <<smootherVars, par, gp, geo, session, tab>>

\* The pipeline's guideline lookup of one map point.
Lookup ==
    /\ parser.phase = "loaded"
    /\ \E pt \in QueryPoints :
          parser' = [phase |-> "looked", config |-> parser.config,
                     exists |-> parser.exists, layout |-> parser.layout,
                     svg_parser |-> parser.svg_parser, pt |-> pt,
                     svg_h |-> SvgH(parser.config.use_svg, parser.svg_parser, pt)]
    /\ UNCHANGED <<smootherVars, par, gp, geo, session, tab>>

NextSvg == LoadLayout \/ Lookup

SpecSvg == InitSvgSpec /\ [][NextSvg]_vars

\* ------------------------------------- GProjection: image <-> map geometry
\* A GProjection g holds K as fx, fy, cx, cy, the integer homography H, z_cam in
\* millimetres and cam_sat.  Points are pairs of exact fractions.  D is zero:
\* cv2.undistortPoints then only normalises by K and projects by P = K, and
\* cv2.projectPoints only projects by K.

FDiv(a, b) == Frac(a[1] * b[2], a[2] * b[1])

\* The matrix of cofactors transposed: np.linalg.inv(H) times det(H), a factor
\* that cv2.perspectiveTransform cancels.
Adjugate(m) ==
    << <<m[2][2] * m[3][3] - m[2][3] * m[3][2], m[1][3] * m[3][2] - m[1][2] * m[3][3],
         m[1][2] * m[2][3] - m[1][3] * m[2][2]>>,
       <<m[2][3] * m[3][1] - m[2][1] * m[3][3], m[1][1] * m[3][3] - m[1][3] * m[3][1],
         m[1][3] * m[2][1] - m[1][1] * m[2][3]>>,
       <<m[2][1] * m[3][2] - m[2][2] * m[3][1], m[1][2] * m[3][1] - m[1][1] * m[3][2],
         m[1][1] * m[2][2] - m[1][2] * m[2][1]>> >>

\* Row i of M times (x, y, 1).
RowDot(M, i, p) ==
    FAdd(FAdd(FMul(FracInt(M[i][1]), p[1]), FMul(FracInt(M[i][2]), p[2])), FracInt(M[i][3]))

\* (X / w, Y / w), and (0, 0) when w is 0.
DivideByW(X, Y, w) ==
    IF w[1] = 0 THEN <<FracInt(0), FracInt(0)>> ELSE <<FDiv(X, w), FDiv(Y, w)>>

\* cv2.perspectiveTransform of one point.
PerspectiveTransform(M, p) == DivideByW(RowDot(M, 1, p), RowDot(M, 2, p), RowDot(M, 3, p))

\* ((u - cx) / fx, (v - cy) / fy)
NormalizeByK(g, p) ==
    <<FDiv(FSub(p[1], FracInt(g.cx)), FracInt(g.fx)), FDiv(FSub(p[2], FracInt(g.cy)), FracInt(g.fy))>>

\* (fx * x + cx, fy * y + cy)
ProjectByK(g, xy) ==
    <<FAdd(FMul(FracInt(g.fx), xy[1]), FracInt(g.cx)), FAdd(FMul(FracInt(g.fy), xy[2]), FracInt(g.cy))>>

\* GProjection.cctv_to_undistorted
CctvToUndistorted(g, p) == ProjectByK(g, NormalizeByK(g, p))

\* GProjection.undistorted_to_flat_sat
UndistortedToFlatSat(g, p) == PerspectiveTransform(g.H, p)

\* GProjection.flat_sat_to_undistorted
FlatSatToUndistorted(g, p) == PerspectiveTransform(Adjugate(g.H), p)

\* GProjection.undistorted_to_cctv
UndistortedToCctv(g, p) == ProjectByK(g, NormalizeByK(g, p))

\* The apparent map point of an image point: cctv_to_sat with h = 0.
ApparentSat(g, p) == UndistortedToFlatSat(g, CctvToUndistorted(g, p))

\* GProjection.cctv_to_sat
CctvToSat(g, p, h) ==
    IF h # 0 THEN ParallaxCorrect(g.z_cam, g.cam_sat, ApparentSat(g, p), h)
    ELSE ApparentSat(g, p)

\* flat_pt of sat_to_cctv
FlatPoint(g, p, h) == IF h # 0 THEN ParallaxProject(g.z_cam, g.cam_sat, p, h) ELSE p

\* GProjection.sat_to_cctv
SatToCctv(g, p, h) == UndistortedToCctv(g, FlatSatToUndistorted(g, FlatPoint(g, p, h)))

\* The reference point of a box (rx, ry, rw, rh), the bottom edge first.
RefPointBottomAlways(rect, ref_method) ==
    <<Frac(2 * rect[1] + rect[3], 2), FracInt(rect[2] + rect[4])>>

\* The reference point of a box (rx, ry, rw, rh).
RefPoint(rect, ref_method) ==
    <<Frac(2 * rect[1] + rect[3], 2),
      IF ref_method = "center_bottom_side" THEN FracInt(rect[2] + rect[4])
      ELSE Frac(2 * rect[2] + rect[4], 2)>>

\* final_sat from the apparent point; h_meters is an even number of millimetres.
FinalSat(g, apparent_sat, h_meters, proj_method) ==
    IF proj_method = "down_h" THEN ParallaxCorrect(g.z_cam, g.cam_sat, apparent_sat, h_meters)
    ELSE IF proj_method = "down_h_2"
    THEN ParallaxCorrect(g.z_cam, g.cam_sat, apparent_sat, h_meters \div 2)
    ELSE apparent_sat

\* The dictionary returned for a reference point.
ContactOf(g, ref, final_sat) ==
    [sat_coords |-> final_sat, cctv_ref_point |-> ref,
     cctv_ground_point |-> SatToCctv(g, final_sat, 0)]

ContactFrom(g, ref, h_meters, proj_method) ==
    ContactOf(g, ref, FinalSat(g, CctvToSat(g, ref, 0), h_meters, proj_method))

\* GProjection.get_ground_contact_from_box
GetGroundContactFromBox(g, rect, h_meters, ref_method, proj_method) ==
    ContactFrom(g, RefPoint(rect, ref_method), h_meters, proj_method)

\* The factor with the height added: z_cam / (z_cam + h).
CeilingFactorPlus(g, h) ==
    IF Abs(g.z_cam - h) < ParallaxGuard THEN FracInt(1) ELSE Frac(g.z_cam, g.z_cam + h)

\* factor of sat_floor_to_cctv_3d
CeilingFactor(g, h) ==
    IF Abs(g.z_cam - h) < ParallaxGuard THEN FracInt(1) ELSE Frac(g.z_cam, g.z_cam - h)

\* undistorted_ground_pts
GroundPts(g, sat_poly) == [i \in 1..Len(sat_poly) |-> FlatSatToUndistorted(g, sat_poly[i])]

\* undistorted_top_pts
TopPts(g, sat_poly, factor) ==
    [i \in 1..Len(sat_poly) |->
        FlatSatToUndistorted(g, ScaleAbout(g.cam_sat, sat_poly[i], factor))]

\* Step 3: every point normalised by K and projected by cv2.projectPoints.
Distorted(g, all_undist) ==
    [i \in 1..Len(all_undist) |-> ProjectByK(g, NormalizeByK(g, all_undist[i]))]

\* GProjection.sat_floor_to_cctv_3d
SatFloorToCctv3d(g, sat_poly, obj_height_m) ==
    Distorted(g, GroundPts(g, sat_poly) \o TopPts(g, sat_poly, CeilingFactor(g, obj_height_m)))

\* ------------------------ SpecGeo: one box grounded or one footprint lifted

Intrinsics == {[fx |-> 1, fy |-> 1, cx |-> 0, cy |-> 0],
               [fx |-> 2, fy |-> 3, cx |-> 320, cy |-> 240]}

Homographies == {<<<<1, 0, 0>>, <<0, 1, 0>>, <<0, 0, 1>>>>,
                 <<<<2, 0, 10>>, <<0, 2, 20>>, <<0, 0, 1>>>>,
                 <<<<1, 0, 0>>, <<0, 1, 0>>, <<0, 1, 10>>>>}

GeoZCams == {0, 1600, ZCamDefault}

\* Object heights in millimetres, all even.
GeoHeights == {0, 1600, 10000, 12000}

\* The heights lifted to: also the one 4 mm below the camera, within the guard.
LiftHeights(z_cam) == GeoHeights \cup {Max2(z_cam - 4, 0)}

Rects == {<<10, 20, 40, 60>>, <<0, 0, 5, 7>>}

RefMethods == {"center_bottom_side", "center_box", "top"}

ProjMethods == {"down_h", "down_h_2", "match", "none"}

Footprints ==
    {<<FracPt(<<100, 0>>), FracPt(<<100, 50>>), FracPt(<<60, 50>>), FracPt(<<60, 0>>)>>,
     <<FracPt(<<-40, 70>>), FracPt(<<30, -20>>), FracPt(<<0, 0>>), <<Frac(21, 2), Frac(-7, 4)>>>>}

InitGeo ==
    /\ SmootherInit
    /\ tab = TabIdle
    /\ scen = ScenIdle
    /\ par = ParIdle
    /\ gp = GpIdle
    /\ parser = ParserIdle
    /\ session = SessionIdle
    /\ \E k \in Intrinsics, H \in Homographies, z \in GeoZCams, c \in CamPoints :
          geo = [phase |-> "ready",
                 g |-> [fx |-> k.fx, fy |-> k.fy, cx |-> k.cx, cy |-> k.cy, H |-> H,
                        z_cam |-> z, cam_sat |-> FracPt(c)]]

\* One call of get_ground_contact_from_box.
GroundContact ==
    /\ geo.phase = "ready"
    /\ \E rect \in Rects, h \in GeoHeights, ref_method \in RefMethods,
          proj_method \in ProjMethods :
          geo' = [phase |-> "contact", g |-> geo.g, rect |-> rect, h |-> h,
                  ref_method |-> ref_method, proj_method |-> proj_method,
                  out |-> GetGroundContactFromBox(geo.g, rect, h, ref_method, proj_method)]
    /\ UNCHANGED <<smootherVars, par, gp, parser, session, tab>>

\* One call of sat_floor_to_cctv_3d.
Lift ==
    /\ geo.phase = "ready"
    /\ \E sat_poly \in Footprints, h \in LiftHeights(geo.g.z_cam) :
          geo' = [phase |-> "lifted", g |-> geo.g, sat_poly |-> sat_poly, h |-> h,
                  out |-> SatFloorToCctv3d(geo.g, sat_poly, h)]
    /\ UNCHANGED <<smootherVars, par, gp, parser, session, tab>>

NextGeo == GroundContact \/ Lift

SpecGeo == InitGeo /\ [][NextGeo]_vars

\* ----------------------------------- InferenceSession._process_pipeline
\* The loop over frames and, inside a frame, over the detected boxes.  The
\* session's GProjection has K and H the identity, the default camera height
\* and the camera above the map origin; ref_method and proj_method are the
\* defaults of g_data.get.  Lengths of the priors are in millimetres.

SessionG ==
    [fx |-> 1, fy |-> 1, cx |-> 0, cy |-> 0, H |-> Identity3,
     z_cam |-> ZCamDefault, cam_sat |-> FracPt(<<0, 0>>)]

\* 1000 / real_fps: the time between two frames in milliseconds.
FrameMs == 100

\* prior_dims_norm: the classes with a dimension prior.
PriorDims(cls_name) ==
    IF cls_name = "car" THEN Some([height |-> 2000, width |-> 2000, length |-> 4000])
    ELSE None

\* The height of a car taken for a class without a prior.
HRealAssumed(dims) == IF IsNone(dims) THEN 2000 ELSE Val(dims).height

\* h_real
HReal(dims) == IF IsNone(dims) THEN 0 ELSE Val(dims).height

\* TrackSmoother.__init__ as a record.
NewSmoother ==
    [speed_state |-> None, heading_vec_state |-> None, velocity_vec_state |-> None,
     pos_history |-> <<>>, jitter_hist |-> <<>>]

\* The fields of a smoother out of the result of an update.
SmootherOf(k) ==
    [speed_state |-> k.speed_state, heading_vec_state |-> k.heading_vec_state,
     velocity_vec_state |-> k.velocity_vec_state,
     pos_history |-> k.pos_history, jitter_hist |-> k.jitter_hist]

\* A map point in whole pixels, as the smoother and the guideline index take it.
PixelOf(p) == <<RoundDiv(p[1][1], p[1][2]), RoundDiv(p[2][1], p[2][2])>>

\* dt without the test `if dt <= 0`.
FrameDtOfUnclamped(i, prev_f) == (i - prev_f) * FrameMs

\* dt of the pipeline in milliseconds: (i - prev_f) / real_fps, and one frame
\* when that is not positive.
FrameDtOf(i, prev_f) == IF (i - prev_f) * FrameMs <= 0 THEN FrameMs ELSE (i - prev_f) * FrameMs

\* One corner (x, y) of the footprint turned by the heading and moved to the
\* object: corners @ R.T + sat_coords.
Corner(x, y, c, s, sat_coords) ==
    <<FAdd(FSub(FMul(Frac(c, TrigScale), x), FMul(Frac(s, TrigScale), y)), sat_coords[1]),
      FAdd(FAdd(FMul(Frac(s, TrigScale), x), FMul(Frac(c, TrigScale), y)), sat_coords[2])>>

FloorBoxOf(dx, dy, c, s, sat_coords) ==
    << Corner(dx, dy, c, s, sat_coords), Corner(dx, FSub(FracInt(0), dy), c, s, sat_coords),
       Corner(FSub(FracInt(0), dx), FSub(FracInt(0), dy), c, s, sat_coords),
       Corner(FSub(FracInt(0), dx), dy, c, s, sat_coords) >>

\* sat_floor_box: dx = (l_m * px_m) / 2, dy = (w_m * px_m) / 2.
SatFloorBox(dims, heading, sat_coords) ==
    FloorBoxOf(Frac(dims.length * PxPerM, 2 * 1000), Frac(dims.width * PxPerM, 2 * 1000),
               Cos(heading), Sin(heading), sat_coords)

\* Step 4 for an object that is lifted: the footprint and its 3D box.
Lifted(sat_floor_box, h_real) ==
    [sat_floor_box |-> Some(sat_floor_box),
     bbox_3d |-> Some(SatFloorToCctv3d(SessionG, sat_floor_box, h_real))]

NotLifted == [sat_floor_box |-> None, bbox_3d |-> None]

\* Step 4: if have_heading and have_measurements
Lifting3D(heading, is_def, dims, sat_coords) ==
    IF ~IsNone(heading) /\ ~IsNone(dims)
    THEN Lifted(SatFloorBox(Val(dims), Val(heading), sat_coords), HReal(dims))
    ELSE NotLifted

\* obj_data, with what the model keeps beside it: the height the box was
\* projected with, the guideline heading and the dt handed to update, and
\* whether update returned at the speed gate.
ObjData(j, tid, cls_name, dims, proj_res, heading, speed, is_def, lift, svg_h, dt, gated) ==
    [id |-> j, tracked_id |-> tid, class |-> cls_name,
     reference_point |-> proj_res.cctv_ref_point, sat_coords |-> proj_res.sat_coords,
     have_heading |-> ~IsNone(heading), have_measurements |-> ~IsNone(dims),
     default_heading |-> is_def, heading |-> heading,
     speed_kmh |-> IF IsNone(heading) THEN 0 ELSE speed,
     sat_floor_box |-> lift.sat_floor_box, bbox_3d |-> lift.bbox_3d,
     h_real |-> HReal(dims), svg_heading |-> svg_h, dt |-> dt, gated |-> gated]

\* The object of a box without a track id.
Untracked(s, cls_name, dims, proj_res) ==
    [s EXCEPT !.op = "detect", !.j = s.j + 1, !.seen = s.seen + 1,
              !.obj = Some(ObjData(s.j, None, cls_name, dims, proj_res, None, 0, FALSE,
                                   Lifting3D(None, FALSE, dims, proj_res.sat_coords), None,
                                   None, FALSE))]

\* The session after update returned k for track tid.
Updated(s, cls_name, tid, dims, proj_res, svg_h, k) ==
    [s EXCEPT !.op = "detect", !.j = s.j + 1, !.seen = s.seen + 1,
              !.track_smoothers[tid] = Some(SmootherOf(k)),
              !.last_seen_frame[tid] = Some(s.i),
              !.updates[tid] = s.updates[tid] + 1,
              !.obj = Some(ObjData(s.j, Some(tid), cls_name, dims, proj_res,
                                   k.ret.heading, k.ret.speed_kmh, k.ret.default_heading,
                                   Lifting3D(k.ret.heading, k.ret.default_heading, dims,
                                             proj_res.sat_coords),
                                   svg_h, Some(k.call.dt), k.call.gated))]

\* A new smoother at every sighting.
SmootherForFresh(s, tid) == NewSmoother

\* track_smoothers[tid] at the update: a new smoother on the first sighting.
SmootherFor(s, tid) ==
    IF IsNone(s.track_smoothers[tid]) THEN NewSmoother ELSE Val(s.track_smoothers[tid])

\* prev_f: i - 1 on the first sighting, the frame of the last sighting after.
PrevFrame(s, tid) ==
    IF IsNone(s.track_smoothers[tid]) THEN s.i - 1 ELSE Val(s.last_seen_frame[tid])

\* The update of the track's smoother with svg_h and dt.
KinematicsWith(s, cls_name, tid, dims, proj_res, svg_h) ==
    Updated(s, cls_name, tid, dims, proj_res, svg_h,
            UpdateStep(SmootherFor(s, tid), PixelOf(proj_res.sat_coords),
                       FrameDtOf(s.i, PrevFrame(s, tid)), PxPerM, svg_h))

\* Step 3 for a track id.
Kinematics(s, cls_name, tid, dims, proj_res) ==
    KinematicsWith(s, cls_name, tid, dims, proj_res,
                   SvgH(s.use_svg, s.svg_parser, PixelOf(proj_res.sat_coords)))

\* Steps 3 and 4 for a box projected to proj_res.
Tracking(s, cls_name, tid, dims, proj_res) ==
    IF IsNone(tid) THEN Untracked(s, cls_name, dims, proj_res)
    ELSE Kinematics(s, cls_name, Val(tid), dims, proj_res)

\* Step 2: the box (x1, y1, x2, y2) projected with the height of its class.
Projection(s, box, cls_name, tid, dims) ==
    Tracking(s, cls_name, tid, dims,
             GetGroundContactFromBox(SessionG,
                 <<box[1], box[2], box[3] - box[1], box[4] - box[2]>>, HReal(dims),
                 "center_bottom_side", "down_h"))

\* The body of the loop over the boxes for a box inside the region of interest.
ProcessBox(s, box, cls_name, tid) == Projection(s, box, cls_name, tid, PriorDims(cls_name))

\* ------------------------------ SpecPipe: frames of boxes through the loop

\* The frames of the footage and the boxes detected in all of them.
MaxFrames == 2

MaxBoxes == 2

TrackIds == {1, 2}

ClassNames == {"car", "ufo"}

\* Boxes (x1, y1, x2, y2) whose bottom centres are 10 px apart.
Boxes == {<<0, 0, 50, 100>>, <<10, 0, 60, 100>>}

\* The guideline index of the session when use_svg is on.
SessionLayout == Some(LayoutPerpendicular)

InitPipe ==
    /\ SmootherInit
    /\ tab = TabIdle
    /\ scen = ScenIdle
    /\ par = ParIdle
    /\ gp = GpIdle
    /\ parser = ParserIdle
    /\ geo = GeoIdle
    /\ \E use_svg \in BOOLEAN, layout_path \in LayoutPaths :
          session = [phase |-> "running", op |-> "start", use_svg |-> use_svg,
                     svg_parser |-> SvgParserOf([use_svg |-> use_svg,
                                                 layout_path |-> layout_path,
                                                 A |-> None], TRUE, SessionLayout),
                     i |-> 0, j |-> 0, seen |-> 0,
                     track_smoothers |-> [t \in TrackIds |-> None],
                     last_seen_frame |-> [t \in TrackIds |-> None],
                     updates |-> [t \in TrackIds |-> 0],
                     obj |-> None]

\* One box of the frame goes through the loop body.
Detect ==
    /\ session.phase = "running"
    /\ session.seen < MaxBoxes
    /\ \E box \in Boxes, cls_name \in ClassNames, tid \in {None} \cup {Some(t) : t \in TrackIds} :
          session' = ProcessBox(session, box, cls_name, tid)
    /\ UNCHANGED <<smootherVars, par, gp, parser, geo, tab>>

\* One box of the frame is outside the region of interest: continue.
SkipBox ==
    /\ session.phase = "running"
    /\ session.seen < MaxBoxes
    /\ session' = [session EXCEPT !.op = "skip", !.j = session.j + 1,
                                 !.seen = session.seen + 1]
    /\ UNCHANGED <<smootherVars, par, gp, parser, geo, tab>>

\* The frame's boxes are done: the next frame.
NextFrame ==
    /\ session.phase = "running"
    /\ session.i < MaxFrames - 1
    /\ session' = [session EXCEPT !.op = "frame", !.i = session.i + 1, !.j = 0]
    /\ UNCHANGED <<smootherVars, par, gp, parser, geo, tab>>

NextPipe == Detect \/ SkipBox \/ NextFrame

SpecPipe == InitPipe /\ [][NextPipe]_vars

\* ------------------- SpecGate: one track, boxes near and far, skipped frames

\* The frames of the footage and the boxes detected in all of them.
MaxGateFrames == 4

MaxGateBoxes == 4

\* Boxes whose ground contacts are 8 px apart, and one 80 px away from the
\* first (288 km/h over one frame, 144 km/h over two).
GateBoxes == {<<0, 0, 50, 100>>, <<10, 0, 60, 100>>, <<100, 0, 150, 100>>}

InitGate ==
    /\ SmootherInit
    /\ tab = TabIdle
    /\ scen = ScenIdle
    /\ par = ParIdle
    /\ gp = GpIdle
    /\ parser = ParserIdle
    /\ geo = GeoIdle
    /\ session = [phase |-> "running", op |-> "start", use_svg |-> FALSE,
                  svg_parser |-> None,
                  i |-> 0, j |-> 0, seen |-> 0,
                  track_smoothers |-> [t \in TrackIds |-> None],
                  last_seen_frame |-> [t \in TrackIds |-> None],
                  updates |-> [t \in TrackIds |-> 0],
                  obj |-> None]

\* One box of track 1 goes through the loop body.
DetectGate ==
    /\ session.phase = "running"
    /\ session.seen < MaxGateBoxes
    /\ \E box \in GateBoxes : session' = ProcessBox(session, box, "car", Some(1))
    /\ UNCHANGED <<smootherVars, par, gp, parser, geo, tab>>

\* The frame's boxes are done: the next frame.
NextFrameGate ==
    /\ session.phase = "running"
    /\ session.i < MaxGateFrames - 1
    /\ session' = [session EXCEPT !.op = "frame", !.i = session.i + 1, !.j = 0]
    /\ UNCHANGED <<smootherVars, par, gp, parser, geo, tab>>

NextGate == DetectGate \/ NextFrameGate

SpecGate == InitGate /\ [][NextGate]_vars

\* ------------------------------------------- InferenceTab: batch execution
\* The GUI thread runs the slots of the tab one at a time; each worker runs
\* InferenceSession.run in its own QThread and reaches the tab only through
\* queued signals (tab.events).  QMessageBox.critical runs a nested event loop:
\* while the box is open the GUI thread keeps delivering queued signals, and
\* the buttons of the window cannot be clicked.

\* InferenceSession.__init__ for a queued video, its thread started.
NewWorker(video) ==
    [video |-> video, stop_requested |-> FALSE, pc |-> "pipeline",
     outcome |-> "none", finished_emitted |-> 0, joined |-> FALSE]

\* finish_batch
FinishBatch(t) ==
    [t EXCEPT !.is_processing = FALSE, !.btn_start = TRUE, !.btn_stop = FALSE,
              !.pbar = "Idle"]

\* run_next_task starting the worker of the first queued video.
StartWorker(t) ==
    [t EXCEPT !.workers = Append(t.workers, NewWorker(t.processing_queue[1])),
              !.current_worker = Some(Len(t.workers) + 1),
              !.pbar = "Processing",
              !.started = Append(t.started, t.processing_queue[1])]

\* run_next_task
RunNextTask(t) ==
    IF t.processing_queue = <<>> \/ ~t.is_processing THEN FinishBatch(t)
    ELSE StartWorker(t)

\* on_start_clicked with the ticked videos in table order (at least one).
OnStartClicked(t, queue) ==
    RunNextTask([t EXCEPT !.processing_queue = queue, !.is_processing = TRUE,
                          !.btn_start = FALSE, !.btn_stop = TRUE,
                          !.selected = queue, !.started = <<>>,
                          !.error_reported = FALSE, !.stop_clicked = FALSE,
                          !.batches = t.batches + 1])

\* worker_thread.quit() and wait() on the thread of the current worker.
Joined(t) ==
    IF IsNone(t.current_worker) THEN t
    ELSE [t EXCEPT !.workers[Val(t.current_worker)].joined = TRUE]

\* processing_queue.pop(0) when the queue is not empty.
Popped(t) ==
    IF t.processing_queue = <<>> THEN t
    ELSE [t EXCEPT !.processing_queue = Tail(t.processing_queue)]

\* on_session_finished
OnSessionFinished(t) == RunNextTask(Popped(Joined(t)))

\* InferenceSession.request_stop on the current worker.
RequestStop(t) ==
    IF IsNone(t.current_worker) THEN t
    ELSE [t EXCEPT !.workers[Val(t.current_worker)].stop_requested = TRUE]

\* on_stop_clicked
OnStopClicked(t) ==
    [RequestStop(t) EXCEPT !.is_processing = FALSE, !.btn_stop = FALSE]

\* ---------------------- SpecBatch: batches of videos, stops and failures

\* The videos of the table and the Start clicks of a run.
MaxVideos == 3

MaxBatches == 2

\* The ticked videos in table order.
RECURSIVE Ticked(_, _)
Ticked(ticks, row) ==
    IF row > MaxVideos THEN <<>>
    ELSE IF row \in ticks THEN <<row>> \o Ticked(ticks, row + 1)
    ELSE Ticked(ticks, row + 1)

\* The tab after on_lock_clicked listed the videos: Start enabled.
InitBatch ==
    /\ SmootherInit
    /\ scen = ScenIdle
    /\ par = ParIdle
    /\ gp = GpIdle
    /\ parser = ParserIdle
    /\ geo = GeoIdle
    /\ session = SessionIdle
    /\ tab = [phase |-> "batch", is_processing |-> FALSE, processing_queue |-> <<>>,
              btn_start |-> TRUE, btn_stop |-> FALSE, pbar |-> "Idle",
              current_worker |-> None, workers |-> <<>>, events |-> <<>>,
              dialogs |-> 0, batches |-> 0, selected |-> <<>>, started |-> <<>>,
              error_reported |-> FALSE, stop_clicked |-> FALSE]

\* The user clicks Start with some videos ticked.
StartClicked ==
    /\ tab.btn_start /\ tab.dialogs = 0
    /\ tab.batches < MaxBatches
    /\ \E ticks \in (SUBSET (1..MaxVideos)) \ {{}} :
          tab' = OnStartClicked(tab, Ticked(ticks, 1))
    /\ UNCHANGED <<smootherVars, par, gp, parser, geo, session>>

\* The user clicks Stop.
StopClicked ==
    /\ tab.btn_stop /\ tab.dialogs = 0
    /\ tab' = [OnStopClicked(tab) EXCEPT !.stop_clicked = TRUE]
    /\ UNCHANGED <<smootherVars, par, gp, parser, geo, session>>

\* A worker: _process_pipeline returns at the end of the footage.
PipelineReturns ==
    /\ \E w \in 1..Len(tab.workers) :
          /\ tab.workers[w].pc = "pipeline"
          /\ tab' = [tab EXCEPT !.workers[w].pc = "finally", !.workers[w].outcome = "success"]
    /\ UNCHANGED <<smootherVars, par, gp, parser, geo, session>>

\* A worker: the frame loop sees stop_requested and breaks.
PipelineStops ==
    /\ \E w \in 1..Len(tab.workers) :
          /\ tab.workers[w].pc = "pipeline"
          /\ tab.workers[w].stop_requested
          /\ tab' = [tab EXCEPT !.workers[w].pc = "finally", !.workers[w].outcome = "stopped"]
    /\ UNCHANGED <<smootherVars, par, gp, parser, geo, session>>

\* A worker: _process_pipeline raises; run emits sig_error.
PipelineRaises ==
    /\ \E w \in 1..Len(tab.workers) :
          /\ tab.workers[w].pc = "pipeline"
          /\ tab' = [tab EXCEPT !.workers[w].pc = "finally", !.workers[w].outcome = "error",
                                !.events = Append(tab.events, [sig |-> "error", w |-> w])]
    /\ UNCHANGED <<smootherVars, par, gp, parser, geo, session>>

\* A worker: the finally clause of run emits sig_finished.
EmitFinished ==
    /\ \E w \in 1..Len(tab.workers) :
          /\ tab.workers[w].pc = "finally"
          /\ tab' = [tab EXCEPT !.workers[w].pc = "returned",
                                !.workers[w].finished_emitted = tab.workers[w].finished_emitted + 1,
                                !.events = Append(tab.events, [sig |-> "finished", w |-> w])]
    /\ UNCHANGED <<smootherVars, par, gp, parser, geo, session>>

\* The GUI thread delivers sig_error: on_worker_error opens the message box.
DeliverError ==
    /\ tab.events # <<>> /\ tab.events[1].sig = "error"
    /\ tab' = [tab EXCEPT !.events = Tail(tab.events), !.dialogs = tab.dialogs + 1,
                          !.error_reported = TRUE]
    /\ UNCHANGED <<smootherVars, par, gp, parser, geo, session>>

\* The GUI thread delivers sig_finished, inside a message box or not.
DeliverFinished ==
    /\ tab.events # <<>> /\ tab.events[1].sig = "finished"
    /\ tab' = OnSessionFinished([tab EXCEPT !.events = Tail(tab.events)])
    /\ UNCHANGED <<smootherVars, par, gp, parser, geo, session>>

\* The user closes the message box: on_worker_error goes on to on_stop_clicked.
DismissError ==
    /\ tab.dialogs > 0
    /\ tab' = OnStopClicked([tab EXCEPT !.dialogs = tab.dialogs - 1])
    /\ UNCHANGED <<smootherVars, par, gp, parser, geo, session>>

NextBatch ==
    \/ StartClicked
    \/ StopClicked
    \/ DeliverError
    \/ DeliverFinished
    \/ DismissError
    \/ PipelineReturns
    \/ PipelineStops
    \/ PipelineRaises
    \/ EmitFinished

SpecBatch == InitBatch /\ [][NextBatch]_vars

\* The user closes every message box and the scheduler runs every thread.
FairBatch ==
    /\ SpecBatch
    /\ WF_vars(DeliverError) /\ WF_vars(DeliverFinished) /\ WF_vars(DismissError)
    /\ WF_vars(PipelineReturns) /\ WF_vars(EmitFinished)
\* ------------------------------------------------------------------ claims

\* An update call has just been made (every step of the smoother's specifications
\* that is not the caller turning or stopping).
Called == n' = n + 1

\* The five fields of the smoother.
smootherState == <<speed_state, heading_vec_state, velocity_vec_state, pos_history, jitter_hist>>

\* C1.  Speed gate: when a prior accepted position exists, dt > 0 and the speed
\* from the last accepted position to the supplied one exceeds 200 km/h, the call
\* changes none of the smoother's five fields and returns the prior smoothed
\* speed (0 if none), the prior smoothed heading (None if none) and
\* default_heading False.
C1_GateCase ==
    /\ Called
    /\ call'.dt > 0
    /\ Len(pos_history) > 0
    /\ SpeedKmh(Dist2(call'.pos, Last(pos_history)), call'.dt, PxPerM) > MaxPhysicsSpeed * SpeedScale

C1_SpeedGate ==
    [][C1_GateCase =>
         /\ UNCHANGED smootherState
         /\ ret'.speed_kmh = (IF IsNone(speed_state) THEN 0 ELSE Val(speed_state))
         /\ ret'.heading = (IF IsNone(heading_vec_state) THEN None
                            ELSE Some(VecToDeg(heading_vec_state)))
         /\ ret'.default_heading = FALSE]_vars

\* C1 witness: a call was gated while the smoother already held a speed and a
\* heading.
C1_Witness ==
    /\ call.gated
    /\ ~IsNone(heading_vec_state)
    /\ ~IsNone(speed_state) /\ Val(speed_state) > 0
    /\ ret.speed_kmh = Val(speed_state)

\* C2.  Heading decision of every call that is not gated, in strict priority:
\* (1) raw speed above the minimum, not jittering and a raw heading: a non-null
\* heading, default_heading False; (2) else a stored heading: exactly that heading,
\* default_heading False, stored heading unchanged; (3) else a guideline heading:
\* exactly the guideline, default_heading True, nothing stored; (4) else null and
\* False.  default_heading True only in case (3).
C2_Fresh ==
    /\ call'.raw_speed > HeadingMinSpeed
    /\ ~call'.is_jittering
    /\ ~IsNone(call'.raw_heading)

C2_HeadingPriority ==
    [][(Called /\ ~call'.gated) =>
         /\ C2_Fresh =>
               /\ ~IsNone(ret'.heading)
               /\ ~IsNone(heading_vec_state')
               /\ ret'.default_heading = FALSE
         /\ (~C2_Fresh /\ ~IsNone(heading_vec_state)) =>
               /\ ret'.heading = Some(VecToDeg(heading_vec_state))
               /\ ret'.default_heading = FALSE
               /\ heading_vec_state' = heading_vec_state
         /\ (~C2_Fresh /\ IsNone(heading_vec_state) /\ ~IsNone(call'.svg)) =>
               /\ ret'.heading = call'.svg
               /\ ret'.default_heading = TRUE
               /\ IsNone(heading_vec_state')
         /\ (~C2_Fresh /\ IsNone(heading_vec_state) /\ IsNone(call'.svg)) =>
               /\ IsNone(ret'.heading)
               /\ ret'.default_heading = FALSE
               /\ IsNone(heading_vec_state')
         /\ ret'.default_heading =>
               (~C2_Fresh /\ IsNone(heading_vec_state) /\ ~IsNone(call'.svg))]_vars

\* C2 witness: a call that was slow or jittering, with a guideline heading
\* supplied, returned the stored heading and not the guideline.
C2_Witness ==
    /\ n > 0 /\ ~call.gated
    /\ call.branch = 2
    /\ ~IsNone(call.svg)
    /\ ret.heading = Some(VecToDeg(heading_vec_state))
    /\ ret.heading # call.svg
    /\ ~ret.default_heading

\* C6.  Speed smoothing of every call that is not gated: the smoothed speed
\* becomes alpha*raw + (1-alpha)*prev, alpha = 0.4, when a previous smoothed speed
\* exists and exactly raw otherwise; raw is the speed between the two most recent
\* window positions, 0 with fewer than two positions or dt <= 0; the returned
\* speed_kmh is the new smoothed speed.
C6_Raw ==
    IF Len(pos_history') >= 2 /\ call'.dt > 0
    THEN SpeedKmh(Dist2(pos_history'[Len(pos_history')], pos_history'[Len(pos_history') - 1]),
                  call'.dt, PxPerM)
    ELSE 0

C6_SpeedEma ==
    [][(Called /\ ~call'.gated) =>
         /\ call'.raw_speed = C6_Raw
         /\ ~IsNone(speed_state')
         /\ IsNone(speed_state) => Val(speed_state') = C6_Raw
         /\ ~IsNone(speed_state) =>
               Abs(10 * Val(speed_state') - (4 * C6_Raw + 6 * Val(speed_state))) <= 5
         /\ ret'.speed_kmh = Val(speed_state')]_vars

\* C6 witness: a smoothed speed strictly between the raw speed of the call and
\* zero (an average of a moving call and a standing one).
C6_Witness ==
    /\ n >= 3 /\ ~call.gated
    /\ call.raw_speed > 0
    /\ ~IsNone(speed_state)
    /\ Val(speed_state) > 0 /\ Val(speed_state) < call.raw_speed
    /\ ret.speed_kmh = Val(speed_state)

\* C7.  Guideline snapping: when a heading is freshly smoothed and a guideline
\* heading is supplied, the returned heading is the smoothed heading moved 30% of
\* the shortest signed difference toward the guideline if that difference is
\* below 15 degrees in magnitude, and the smoothed heading otherwise; it lies in
\* [0, 360), is no farther from the guideline than the smoothed heading was, and
\* differs from the smoothed heading by less than 15 degrees.
C7_Snapping ==
    (n > 0 /\ call.branch = 1 /\ ~IsNone(call.svg)) =>
        LET sm   == Val(call.smoothed)
            g    == Val(call.svg)
            out  == Val(ret.heading)
            diff == AngDiff(sm, g)
        IN /\ out >= 0 /\ out < FullTurn
           /\ Abs(diff) < 15 * AngPerDeg => Abs(10 * AngDiff(sm, out) - 3 * diff) <= 5
           /\ Abs(diff) >= 15 * AngPerDeg => out = sm
           /\ Abs(AngDiff(out, g)) <= Abs(diff)
           /\ Abs(AngDiff(out, sm)) < 15 * AngPerDeg

\* C7 witness: a smoothed heading just above 0 degrees was pulled across the
\* 0/360 wrap toward a guideline just below 360 degrees.
C7_Witness ==
    /\ n > 0 /\ call.branch = 1 /\ ~IsNone(call.svg)
    /\ Val(call.svg) > HalfTurn + QuarterTurn
    /\ Val(call.smoothed) < QuarterTurn
    /\ Val(ret.heading) > Val(call.svg)
    /\ Val(ret.heading) # Val(call.smoothed)

\* heading_max_jump in model units.
MaxJump == HeadingMaxJump * AngPerDeg

\* The stored smoothed heading, in model units.
StoredDeg == VecToDeg(heading_vec_state)

\* The direction of a displacement, in model units in [0, FullTurn).
Bearing(d) == PyMod(Atan2(d[2], d[1]) + FullTurn, FullTurn)

C3_StepClamp ==
    (Called /\ ~IsNone(heading_vec_state)) =>
        /\ Abs(AngDiff(VecToDeg(heading_vec_state'), StoredDeg)) <= MaxJump
        /\ (IsNone(call.svg) /\ IsNone(call'.svg) /\ ~IsNone(ret.heading)) =>
              Abs(AngDiff(Val(ret'.heading), Val(ret.heading))) <= MaxJump

C3_TurnTakesCalls ==
    (scen.phase = "back" /\ ~IsNone(scen.ref)) =>
        Abs(AngDiff(StoredDeg, Val(scen.ref))) <= MaxJump * scen.k

C4_ConvergesAfterReversal ==
    (scen.phase = "back" /\ scen.k = BackUpdates
       /\ scen.back = <<-scen.fwd[1], -scen.fwd[2]>>) =>
        Abs(AngDiff(Val(ret.heading), Bearing(scen.back))) <= MaxJump

\* C5 as stated.  Jitter suppression: after the first smoothed heading exists,
\* every update fed a position that is identical to or within the jitter radius
\* of the previous ones returns default_heading False and the same heading as
\* the previous call, and the stored heading does not change.
C5_FrozenWhileInside ==
    [][(Called /\ scen.phase = "stand" /\ ~IsNone(heading_vec_state)) =>
         /\ ret'.default_heading = FALSE
         /\ ret'.heading = ret.heading
         /\ heading_vec_state' = heading_vec_state]_vars

\* The jitter window after the call holds at least two positions and the diagonal
\* of its bounding box is shorter than the jitter radius (0.6 m) in pixels.
C5_WindowInside ==
    LET w  == jitter_hist'
        xs == {w[i][1] : i \in 1..Len(w)}
        ys == {w[i][2] : i \in 1..Len(w)}
        dx == (CHOOSE m \in xs : \A v \in xs : m >= v) - (CHOOSE m \in xs : \A v \in xs : m <= v)
        dy == (CHOOSE m \in ys : \A v \in ys : m >= v) - (CHOOSE m \in ys : \A v \in ys : m <= v)
    IN /\ Len(w) >= 2
       /\ 100 * (dx * dx + dy * dy) < 36 * PxPerM * PxPerM

\* C5 as amended.  After a smoothed heading exists, every update that repeats the
\* last accepted position, or after which the whole jitter window (two positions
\* or more) spans less than the jitter radius, returns default_heading False and
\* exactly the stored heading, and leaves the stored heading unchanged, with or
\* without a guideline heading.
C5_FrozenWhileJittering ==
    [][(Called /\ ~IsNone(heading_vec_state) /\ ~call'.gated
          /\ (call'.pos = Last(pos_history) \/ C5_WindowInside)) =>
         /\ ret'.default_heading = FALSE
         /\ ret'.heading = Some(StoredDeg)
         /\ heading_vec_state' = heading_vec_state]_vars

\* C5 witness: the track moved within the radius (raw speed above the minimum),
\* the whole window lay inside the radius, a guideline heading was supplied, and
\* the stored heading was returned.
C5_Witness ==
    /\ scen.phase = "stand"
    /\ call.is_jittering
    /\ call.raw_speed > HeadingMinSpeed
    /\ ~IsNone(call.raw_heading)
    /\ ~IsNone(call.svg)
    /\ ret.heading = Some(StoredDeg)
    /\ ret.heading # call.svg
    /\ ~ret.default_heading


\* ------------------------------------------------------------ C8, C9: parallax

\* The round trip was made: the point was corrected and projected back.
RoundTripDone == par.phase = "back"

\* C8 as stated: for every z_cam > 0, every h with 0 < h < z_cam and every map
\* point p, projecting the corrected point back gives p again.
C8_RoundTripWholeRange ==
    (RoundTripDone /\ 0 < par.h /\ par.h < par.z_cam) => par.back = par.pt

\* C8: for every z_cam > 0, every h with 0 < h < z_cam for which the guard of
\* parallax_project_real_to_ground does not fire (abs(z_cam - h) >= 0.01) and
\* every map point p, projecting the corrected point back gives p again; when
\* the guard fires the corrected point itself comes back, not p.
C8_RoundTrip ==
    (RoundTripDone /\ 0 < par.h /\ par.h < par.z_cam) =>
        IF Abs(par.z_cam - par.h) < ParallaxGuard
        THEN par.back = par.real
        ELSE par.back = par.pt

C8_Witness ==
    /\ RoundTripDone
    /\ 0 < par.h /\ par.h < par.z_cam
    /\ par.z_cam - par.h >= ParallaxGuard
    /\ par.pt # par.cam_sat
    /\ par.real # par.pt
    /\ par.back = par.pt

\* (x - c) * z_cam = (a - c) * (z_cam - h) for fractions x, a, c: x is
\* c + (a - c) * (z_cam - h) / z_cam.
IsCorrected(x, a, c, z_cam, h) ==
    FMul(FSub(x, c), FracInt(z_cam)) = FMul(FSub(a, c), FracInt(z_cam - h))

Corrected == par.phase \in {"real", "back"}

\* C9: parallax_correct_ground_to_real returns C + (apparent - C) * (z_cam - h) / z_cam,
\* the apparent point unchanged when z_cam = 0; z_cam = 10 m, C = (0,0), h = 1.6 m,
\* apparent = (100,0) gives (84,0); h = 0 gives the input, h = z_cam gives C.
C9_CorrectFormula ==
    Corrected =>
        /\ par.z_cam = 0 => par.real = par.pt
        /\ par.z_cam # 0 =>
              \A i \in 1..2 :
                 IsCorrected(par.real[i], par.pt[i], par.cam_sat[i], par.z_cam, par.h)
        /\ (par.z_cam = 10000 /\ par.h = 1600 /\ par.cam_sat = FracPt(<<0, 0>>)
              /\ par.pt = FracPt(<<100, 0>>)) => par.real = FracPt(<<84, 0>>)
        /\ par.h = 0 => par.real = par.pt
        /\ (par.h = par.z_cam /\ par.z_cam # 0) => par.real = par.cam_sat

C9_Witness ==
    /\ Corrected
    /\ par.z_cam = 10000 /\ par.h = 1600
    /\ par.cam_sat = FracPt(<<0, 0>>)
    /\ par.pt = FracPt(<<100, 0>>)
    /\ par.real = FracPt(<<84, 0>>)

\* ------------------------------------------------------- C10: construction

\* H is singular, or H or K is missing or no matrix.
BadConfig(config) ==
    \/ config.K \in {"missing", "text"}
    \/ config.H.kind \in {"missing", "text"}
    \/ (config.H.kind = "matrix" /\ Det3(config.H.m) = 0)

\* C10: constructing GProjection from a configuration whose H is singular, or
\* whose H or K is missing or malformed, fails (with ConfigError): no instance
\* is produced from such a configuration.
C10_FailsFast ==
    (gp.phase = "done" /\ BadConfig(gp.config)) => gp.outcome # "constructed"

\* ------------------------------------------------------------ C11 .. C14

\* The lookup reached get_nearest_heading of a parser that loaded.
Looked == parser.phase = "looked"

LookedInParser ==
    /\ Looked
    /\ parser.config.use_svg
    /\ ~IsNone(parser.svg_parser)
    /\ Val(parser.svg_parser).valid

Segments == Val(parser.svg_parser).orientation_segments

\* The segments that are not skipped.
Usable == {k \in 1..Len(Segments) : Dot(Sub(Segments[k].b, Segments[k].a),
                                        Sub(Segments[k].b, Segments[k].a)) > 0}

\* Segment j is strictly nearer to the point than segment k.
Nearer(j, k) ==
    SegmentDistSq(Segments[j], parser.pt)[1] * SegmentDistSq(Segments[k], parser.pt)[2]
        < SegmentDistSq(Segments[k], parser.pt)[1] * SegmentDistSq(Segments[j], parser.pt)[2]

\* The segments at the minimum distance, and the first of them.
Nearest == {k \in Usable : \A j \in Usable : ~Nearer(j, k)}

Winner == CHOOSE k \in Nearest : \A j \in Nearest : k <= j

\* C11: get_nearest_heading returns the direction of the first of the usable
\* segments nearest to the point, brought into [0, 360): 0 degrees for the
\* segment (0,0)-(10,0) and the point (5,3), and for a point as near to two
\* perpendicular segments the direction of the one enumerated first.
C11_NearestHeading ==
    /\ (LookedInParser /\ Usable # {})
        => /\ ~IsNone(parser.svg_h)
           /\ Val(parser.svg_h) \in 0..(FullTurn - 1)
           /\ AngDiff(Val(parser.svg_h),
                      Atan2(Segments[Winner].b[2] - Segments[Winner].a[2],
                            Segments[Winner].b[1] - Segments[Winner].a[1])) = 0
    /\ (LookedInParser /\ IsNone(parser.config.A) /\ parser.pt = <<5, 3>>
        /\ parser.layout = Some(LayoutScenario))
        => parser.svg_h = Some(0)
    /\ (LookedInParser /\ IsNone(parser.config.A) /\ parser.pt = <<3, 3>>
        /\ parser.layout = Some(LayoutPerpendicular))
        => parser.svg_h = Some(0)
    /\ (LookedInParser /\ IsNone(parser.config.A) /\ parser.pt = <<3, 3>>
        /\ parser.layout = Some(LayoutPerpendicularNs))
        => parser.svg_h = Some(90 * AngPerDeg)

\* A lookup of a point as near to two segments, answered with the first one.
C11_Witness ==
    /\ LookedInParser
    /\ parser.layout = Some(LayoutPerpendicular)
    /\ parser.pt = <<3, 3>>
    /\ Cardinality(Nearest) = 2
    /\ parser.svg_h = Some(0)

RECURSIVE InTargetGroup(_, _)
\* Element i is a <g> of a target id or lies below one.
InTargetGroup(doc, i) ==
    /\ i # 0
    /\ \/ doc[i].tag[Len(doc[i].tag)] = "g" /\ doc[i].id \in {"Guidelines", "Physical"}
       \/ InTargetGroup(doc, doc[i].parent)

\* Parsing the layout raises: an element of a target group does not convert.
ParseRaises(layout) ==
    \E i \in 1..Len(layout) : layout[i].bad /\ InTargetGroup(layout, i)

\* The index was not loaded: guidelines off, no path, no file, or no parse.
NotLoaded ==
    \/ ~parser.config.use_svg
    \/ IsNone(parser.config.layout_path)
    \/ ~parser.exists
    \/ IsNone(parser.layout)
    \/ ParseRaises(Val(parser.layout))

\* C12: the lookup answers None when guidelines are off, no layout path is
\* configured, the file is missing or fails to parse (the index is then invalid
\* and holds no segment, not even those before the failing element), or no
\* stored segment has a length; in every other case it answers a number in
\* [0, 360).
C12_NoneOrAngle ==
    Looked =>
        /\ IsNone(parser.svg_h)
            <=> (NotLoaded \/ \A k \in 1..Len(Segments) :
                                  Segments[k].a = Segments[k].b)
        /\ ~IsNone(parser.svg_h) => Val(parser.svg_h) \in 0..(FullTurn - 1)
        /\ (parser.config.use_svg /\ ~IsNone(parser.config.layout_path)
            /\ (~parser.exists \/ IsNone(parser.layout) \/ ParseRaises(Val(parser.layout))))
            => parser.svg_parser = Some([valid |-> FALSE, orientation_segments |-> <<>>])

\* A lookup in a layout whose second line fails to convert after a good one.
C12_Witness ==
    /\ Looked
    /\ parser.config.use_svg
    /\ parser.exists
    /\ parser.layout = Some(LayoutBadLine)
    /\ ~IsNone(parser.svg_parser)
    /\ ~Val(parser.svg_parser).valid
    /\ IsNone(parser.svg_h)

\* A layout was loaded into a valid index.
Loaded ==
    /\ parser.phase \in {"loaded", "looked"}
    /\ ~IsNone(parser.svg_parser)
    /\ Val(parser.svg_parser).valid

\* The line, polygon and polyline elements of a layout that have a segment to
\* give: two points or more, or a polygon of one.
Geometry(doc) ==
    {i \in 1..Len(doc) :
        \/ doc[i].tag[Len(doc[i].tag)] \in {"line", "polyline"} /\ Len(doc[i].pts) >= 2
        \/ doc[i].tag[Len(doc[i].tag)] = "polygon" /\ Len(doc[i].pts) >= 1}

\* The elements that segments of the index come from.
Sources == {Segments[k].src : k \in 1..Len(Segments)}

\* C13: an element with geometry contributes segments to the index exactly
\* when it lies in the subtree of a <g> whose id is "Guidelines" or "Physical",
\* the tag taken without its namespace and the group at any depth; geometry
\* outside those subtrees contributes none.
C13_GroupScoping ==
    Loaded =>
        Sources = {i \in Geometry(Val(parser.layout)) : InTargetGroup(Val(parser.layout), i)}

\* A namespaced layout indexed from both of its groups, one line two levels
\* below its group; and a layout whose nearer line outside the group is left out.
C13_Witness ==
    /\ Loaded
    /\ \/ parser.layout = Some(LayoutPerpendicularNs) /\ Sources = {4, 6}
       \/ parser.layout = Some(LayoutScenario) /\ Sources = {3}

RECURSIVE DocumentTransform(_, _)
\* The product of the transforms of the ancestors of element i, outermost
\* first, and of its own.
DocumentTransform(doc, i) ==
    IF i = 0 THEN Identity3
    ELSE MatMul(DocumentTransform(doc, doc[i].parent), ParseTransform(doc[i].transform))

\* The segments of element i under M_align and its document transform.
DocumentSegments(doc, i, M_align) ==
    ElementSegments(doc[i].tag[Len(doc[i].tag)],
                    [k \in 1..Len(doc[i].pts) |->
                        MatApply(M_align, MatApply(DocumentTransform(doc, i), doc[i].pts[k]))],
                    i)

\* The stored segments that come from element i.
StoredFrom(i) == SelectSeq(Segments, LAMBDA s : s.src = i)

\* C14: every stored endpoint is M_align * (T_a1 * ... * T_self) * p over all
\* the ancestors of its element in the document, and every element is emitted
\* once with that transform.
C14_Composition ==
    Loaded =>
        \A i \in Sources :
            StoredFrom(i) = DocumentSegments(Val(parser.layout), i, AlignMatrix(parser.config.A))

\* The transforms from the target group down to the element are composed in
\* order, operators left to right, under M_align.
C14_InsideGroup ==
    (Loaded /\ parser.layout = Some(LayoutTransformed)) =>
        \A i \in Sources :
            StoredFrom(i) = DocumentSegments(Val(parser.layout), i, AlignMatrix(parser.config.A))

\* ------------------------------------------------------------ C15 .. C16

\* The apparent map point of the reference point the call returned.
C15_Apparent ==
    PerspectiveTransform(geo.g.H, geo.out.cctv_ref_point)

\* C15: the reference point of a box is (x + w/2, y + h_box) for
\* center_bottom_side and (x + w/2, y + h_box/2) for any other ref_method; the
\* map point returned is the apparent point of the reference point corrected
\* for the full height with down_h, for half of it with down_h_2, and the
\* apparent point itself for match or any other proj_method.
C15_GroundContact ==
    geo.phase = "contact" =>
        /\ geo.out.cctv_ref_point[1] = Frac(2 * geo.rect[1] + geo.rect[3], 2)
        /\ geo.ref_method = "center_bottom_side"
            => geo.out.cctv_ref_point[2] = FracInt(geo.rect[2] + geo.rect[4])
        /\ geo.ref_method # "center_bottom_side"
            => geo.out.cctv_ref_point[2] = Frac(2 * geo.rect[2] + geo.rect[4], 2)
        /\ geo.proj_method = "down_h"
            => geo.out.sat_coords
                 = ParallaxCorrect(geo.g.z_cam, geo.g.cam_sat, C15_Apparent, geo.h)
        /\ geo.proj_method = "down_h_2"
            => geo.out.sat_coords
                 = ParallaxCorrect(geo.g.z_cam, geo.g.cam_sat, C15_Apparent, geo.h \div 2)
        /\ geo.proj_method \notin {"down_h", "down_h_2"}
            => geo.out.sat_coords = C15_Apparent
        /\ (geo.g.H = <<<<2, 0, 10>>, <<0, 2, 20>>, <<0, 0, 1>>>> /\ geo.rect = <<10, 20, 40, 60>>
            /\ geo.ref_method = "center_bottom_side" /\ geo.g.z_cam = ZCamDefault
            /\ geo.g.cam_sat = FracPt(<<0, 0>>) /\ geo.h = 1600)
            => /\ geo.proj_method = "down_h" => geo.out.sat_coords = <<Frac(294, 5), Frac(756, 5)>>
               /\ geo.proj_method = "down_h_2" => geo.out.sat_coords = <<Frac(322, 5), Frac(828, 5)>>
               /\ geo.proj_method = "match" => geo.out.sat_coords = FracPt(<<70, 180>>)

\* A box with an odd height grounded from its centre with half the height.
C15_Witness ==
    /\ geo.phase = "contact"
    /\ geo.rect = <<0, 0, 5, 7>>
    /\ geo.ref_method = "center_box"
    /\ geo.proj_method = "down_h_2"
    /\ geo.h = 1600
    /\ geo.g.z_cam = ZCamDefault
    /\ geo.out.cctv_ref_point = <<Frac(5, 2), Frac(7, 2)>>
    /\ geo.out.sat_coords # C15_Apparent

\* C16: for a footprint of 4 corners sat_floor_to_cctv_3d returns 8 points,
\* the floor corners then the ceiling corners in the order of the input, the
\* floor point of corner i being sat_to_cctv(corner, 0) and its ceiling point
\* sat_to_cctv(corner, h), for every h and z_cam, the guard |z_cam - h| < 0.01
\* included.
C16_LiftMatchesSatToCctv ==
    geo.phase = "lifted" =>
        /\ Len(geo.out) = 8
        /\ \A i \in 1..4 :
              /\ geo.out[i] = SatToCctv(geo.g, geo.sat_poly[i], 0)
              /\ geo.out[4 + i] = SatToCctv(geo.g, geo.sat_poly[i], geo.h)

\* A lift inside the guard with z_cam # h, and one where the ceiling is apart
\* from the floor.
C16_Witness ==
    /\ geo.phase = "lifted"
    /\ \/ geo.g.z_cam = ZCamDefault /\ geo.h = ZCamDefault - 4 /\ geo.out[5] = geo.out[1]
       \/ geo.g.z_cam = ZCamDefault /\ geo.h = 1600 /\ geo.out[5] # geo.out[1]

\* ------------------------------------------------------------ C17 .. C19

\* The object the last step of the loop put out.
Obj == Val(session.obj)

Emitted == session.phase = "running" /\ session.op = "detect" /\ ~IsNone(session.obj)

\* The step processed a box: the object it put out.
C17_Processed == session'.phase = "running" /\ session'.op = "detect" /\ session' # session

C17_Step ==
    C17_Processed =>
        /\ IsNone(Val(session'.obj).tracked_id)
            => /\ IsNone(Val(session'.obj).heading)
               /\ Val(session'.obj).speed_kmh = 0
               /\ ~Val(session'.obj).default_heading
               /\ session'.track_smoothers = session.track_smoothers
               /\ session'.updates = session.updates
               /\ IsNone(Val(session'.obj).sat_floor_box)
               /\ IsNone(Val(session'.obj).bbox_3d)
        /\ Val(session'.obj).class # "car"
            => /\ ~Val(session'.obj).have_measurements
               /\ Val(session'.obj).h_real = 0
               /\ Val(session'.obj).sat_coords = Val(session'.obj).reference_point
               /\ IsNone(Val(session'.obj).sat_floor_box)
               /\ IsNone(Val(session'.obj).bbox_3d)
        /\ (~session.use_svg \/ IsNone(session.svg_parser))
            => IsNone(Val(session'.obj).svg_heading)
        /\ ~IsNone(Val(session'.obj).sat_floor_box)
            <=> (Val(session'.obj).have_heading /\ Val(session'.obj).have_measurements)
        /\ ~IsNone(Val(session'.obj).bbox_3d)
            <=> (Val(session'.obj).have_heading /\ Val(session'.obj).have_measurements)
        /\ Val(session'.obj).have_heading <=> ~IsNone(Val(session'.obj).heading)

\* C17: in the loop an object without a track id gets heading null, speed 0,
\* default_heading False, no smoother made or updated and no footprint or 3D
\* box; an object of a class without a dimension prior gets have_measurements
\* False, is projected with height 0 and gets no footprint or 3D box; without a
\* guideline layout update is called with guideline heading None; footprint
\* and 3D box are there exactly when have_heading and have_measurements hold.
C17_GracefulDegradation == [][C17_Step]_vars

\* An untracked car after a tracked object, and a tracked object of a class
\* without a prior that has a heading.
C17_Witness ==
    /\ Emitted
    /\ \/ /\ IsNone(Obj.tracked_id)
          /\ Obj.class = "car"
          /\ \E t \in TrackIds : session.updates[t] > 0
       \/ /\ ~IsNone(Obj.tracked_id)
          /\ Obj.class = "ufo"
          /\ Obj.have_heading

\* C18: no object put out with default_heading True has a footprint or a 3D box.
C18_RealHeadingOnly ==
    (Emitted /\ Obj.default_heading) => (IsNone(Obj.sat_floor_box) /\ IsNone(Obj.bbox_3d))

\* The track ids that own a smoother in session state s.
Owners(s) == {t \in TrackIds : ~IsNone(s.track_smoothers[t])}

\* The smoother of track t after one update call on what the track had before
\* the step (a new smoother when it had none), with the arguments of the step.
C19_OneUpdate(t) ==
    SmootherOf(UpdateStep(IF IsNone(session.track_smoothers[t]) THEN NewSmoother
                          ELSE Val(session.track_smoothers[t]),
                          PixelOf(Val(session'.obj).sat_coords),
                          IF IsNone(session.track_smoothers[t])
                             \/ session.i <= Val(session.last_seen_frame[t])
                          THEN FrameMs
                          ELSE (session.i - Val(session.last_seen_frame[t])) * FrameMs,
                          PxPerM, Val(session'.obj).svg_heading))

C19_Step ==
    /\ session'.phase = "running" /\ session.phase = "running"
        => Owners(session) \subseteq Owners(session')
    /\ (session'.phase = "running" /\ session.phase = "running"
        /\ ~(session'.op = "detect" /\ ~IsNone(Val(session'.obj).tracked_id)))
        => session'.track_smoothers = session.track_smoothers
    /\ (session'.phase = "running" /\ session.phase = "running" /\ session' # session
        /\ session'.op = "detect" /\ ~IsNone(Val(session'.obj).tracked_id))
        => /\ Owners(session') = Owners(session) \cup {Val(Val(session'.obj).tracked_id)}
           /\ \A t \in TrackIds :
                IF t = Val(Val(session'.obj).tracked_id)
                THEN /\ session'.track_smoothers[t] = Some(C19_OneUpdate(t))
                     /\ session'.updates[t] = session.updates[t] + 1
                ELSE /\ session'.track_smoothers[t] = session.track_smoothers[t]
                     /\ session'.updates[t] = session.updates[t]

\* C19: the track ids that own a smoother are the ids processed so far; a
\* smoother is made on the first processed sighting and is never replaced or
\* removed; processing a box of track A calls update once on A's smoother and
\* leaves the smoother of every other id as it was.
C19_TrackLifecycle ==
    /\ [](session.phase = "running"
          => Owners(session) = {t \in TrackIds : session.updates[t] > 0})
    /\ [][C19_Step]_vars

\* Both tracks own a smoother, the second made after the first; and a track
\* updated a second time in a later frame.
C19_Witness ==
    /\ Emitted
    /\ \/ Owners(session) = TrackIds /\ Obj.tracked_id = Some(2)
       \/ \E t \in TrackIds : session.updates[t] = 2 /\ session.i = 1
                              /\ Len(Val(session.track_smoothers[t]).pos_history) = 2

\* ------------------------------------------------------------------ C20

\* A call of update with a dt that is not positive.
C20_Case == n' = n + 1 /\ call'.dt <= 0

\* C20: update called with dt <= 0 is never gated, pushes the position into
\* both windows, takes the raw speed as 0 (the smoothed speed is the EMA of 0
\* and the previous one, never negative), has no raw heading, leaves the stored
\* heading and velocity as they are and returns the stored heading, else the
\* guideline heading as a default, else none.
C20_NonPositiveDt ==
    [][C20_Case =>
         /\ ~call'.gated
         /\ Len(pos_history') = Min2(Len(pos_history) + 1, RegWin)
         /\ pos_history'[Len(pos_history')] = call'.pos
         /\ \A k \in 1..(Len(pos_history') - 1) :
               pos_history'[k] = pos_history[k + Len(pos_history) + 1 - Len(pos_history')]
         /\ Len(jitter_hist') = Min2(Len(jitter_hist) + 1, JitterFrames)
         /\ jitter_hist'[Len(jitter_hist')] = call'.pos
         /\ call'.raw_speed = 0
         /\ IsNone(call'.raw_heading)
         /\ ~IsNone(speed_state')
         /\ IsNone(speed_state) => Val(speed_state') = 0
         /\ ~IsNone(speed_state) =>
               /\ Abs(10 * Val(speed_state') - 6 * Val(speed_state)) <= 5
               /\ Val(speed_state') >= 0
         /\ ret'.speed_kmh = Val(speed_state')
         /\ heading_vec_state' = heading_vec_state
         /\ velocity_vec_state' = velocity_vec_state
         /\ ~IsNone(heading_vec_state)
               => /\ ret'.heading = Some(VecToDeg(heading_vec_state))
                  /\ ~ret'.default_heading
         /\ (IsNone(heading_vec_state) /\ ~IsNone(call'.svg))
               => /\ ret'.heading = call'.svg
                  /\ ret'.default_heading
         /\ (IsNone(heading_vec_state) /\ IsNone(call'.svg))
               => /\ IsNone(ret'.heading)
                  /\ ~ret'.default_heading]_vars

\* A teleport with a negative dt after a drive: not gated, the stored heading
\* returned, the speed decayed.
C20_Witness ==
    /\ n = 3
    /\ call.dt < 0
    /\ ~call.gated
    /\ Dist2(pos_history[3], pos_history[2]) = 60 * 60
    /\ ~IsNone(heading_vec_state)
    /\ call.branch = 2
    /\ Val(speed_state) > 0

\* ------------------------------------------------------------ C21 .. C22

\* An update call that was not gated.
Accepting == n' = n + 1 /\ ~call'.gated

\* The window after the append: its first point, last point and the one before.
C21_First == pos_history'[1]

C21_Curr == pos_history'[Len(pos_history')]

C21_Prev == pos_history'[Len(pos_history') - 1]

\* The bearing from the previous to the current position.
C21_Bearing ==
    PyMod(Atan2(C21_Curr[2] - C21_Prev[2], C21_Curr[1] - C21_Prev[1]) + FullTurn, FullTurn)

\* C21: in an update that is not gated, with dt > 0 and two positions or more
\* in the window, the raw heading is the regression direction over the whole
\* window when it holds 3 positions or more and its first and last are 2 px or
\* more apart; else the bearing from the previous to the current position when
\* they are more than 0.5 px apart; else unavailable.  With fewer than two
\* positions or dt <= 0 it is unavailable.
C21_RawHeadingOrder ==
    [][Accepting =>
         IF call'.dt > 0 /\ Len(pos_history') >= 2
         THEN IF Len(pos_history') >= 3 /\ Dist2(C21_Curr, C21_First) >= 2 * 2
              THEN /\ ~IsNone(call'.raw_heading)
                   /\ call'.raw_heading = ComputeRegressionHeading(pos_history')
                   /\ (\A k \in 1..Len(pos_history') : pos_history'[k][2] = C21_First[2])
                        => Val(call'.raw_heading)
                             = (IF C21_Curr[1] > C21_First[1] THEN 0 ELSE 180 * AngPerDeg)
                   /\ (\A k \in 1..Len(pos_history') : pos_history'[k][1] = C21_First[1])
                        => Val(call'.raw_heading) = 90 * AngPerDeg
              ELSE IF 4 * Dist2(C21_Curr, C21_Prev) > 1
              THEN call'.raw_heading = Some(C21_Bearing)
              ELSE IsNone(call'.raw_heading)
         ELSE IsNone(call'.raw_heading)]_vars

\* A window of three positions whose ends are less than 2 px apart and whose
\* last step is one pixel west (the bearing is used), and a window whose ends
\* are exactly 2 px apart (the regression is used).
C21_Witness ==
    /\ n >= 3 /\ ~call.gated /\ call.dt > 0
    /\ \/ /\ Len(pos_history) = 3
          /\ pos_history[3] = pos_history[1]
          /\ pos_history[2] = <<pos_history[1][1] + 1, pos_history[1][2]>>
          /\ call.raw_heading = Some(180 * AngPerDeg)
       \/ /\ Len(pos_history) = 3
          /\ pos_history[3] = <<pos_history[1][1] + 2, pos_history[1][2]>>
          /\ call.raw_heading = Some(0)

\* The last step recorded in the window.
LastStep ==
    <<pos_history[Len(pos_history)][1] - pos_history[Len(pos_history) - 1][1],
      pos_history[Len(pos_history)][2] - pos_history[Len(pos_history) - 1][2]>>

\* The last call took its raw heading from the regression over the window.
RegressionUsed ==
    /\ n >= 1 /\ ~call.gated /\ call.dt > 0
    /\ Len(pos_history) >= 3
    /\ Dist2(pos_history[Len(pos_history)], pos_history[1]) >= 2 * 2
    /\ ~IsNone(call.raw_heading)

\* C22: whenever the regression heading is used as the raw heading, its
\* direction has a non-negative dot product with the displacement between the
\* two most recent positions, for every window, one recorded across a reversal
\* of direction included.
C22_RegressionAlongTravel ==
    RegressionUsed =>
        DegToVec(Val(call.raw_heading))[1] * LastStep[1]
          + DegToVec(Val(call.raw_heading))[2] * LastStep[2] >= 0

\* ------------------------------------------------------------------- C23

\* The point has been corrected and projected back.
Projected == par.phase = "back"

\* The sign of a fraction.
FSign(a) == IF a[1] > 0 THEN 1 ELSE IF a[1] < 0 THEN -1 ELSE 0

\* C23: parallax_project_real_to_ground returns the real point unchanged when
\* |z_cam - h| < 0.01 and C + (real - C) * z_cam / (z_cam - h) otherwise; with
\* z_cam = 0 and |h| >= 0.01 every point maps to the camera footprint C, while
\* parallax_correct_ground_to_real returned its input; with h above z_cam the
\* point lands on the other side of C.
C23_ProjectGuard ==
    Projected =>
        /\ Abs(par.z_cam - par.h) < ParallaxGuard => par.back = par.real
        /\ Abs(par.z_cam - par.h) >= ParallaxGuard =>
              \A i \in 1..2 :
                  FMul(FSub(par.back[i], par.cam_sat[i]), FracInt(par.z_cam - par.h))
                    = FMul(FSub(par.real[i], par.cam_sat[i]), FracInt(par.z_cam))
        /\ (par.z_cam = 0 /\ Abs(par.h) >= ParallaxGuard) =>
              par.back = par.cam_sat /\ par.real = par.pt
        /\ (par.z_cam > 0 /\ par.h - par.z_cam >= ParallaxGuard) =>
              \A i \in 1..2 :
                  FSign(FSub(par.back[i], par.cam_sat[i]))
                    = - FSign(FSub(par.real[i], par.cam_sat[i]))

\* A camera at height 0 and an object 1.6 m tall: a point away from the
\* footprint is projected onto it.
C23_Witness ==
    /\ Projected
    /\ par.z_cam = 0 /\ par.h = 1600
    /\ par.real = par.pt /\ par.pt # par.cam_sat
    /\ par.back = par.cam_sat

\* ------------------------------------------------------------------- C24

\* The last k items of a sequence (all of them when it is shorter).
LastOf(seq, k) ==
    IF Len(seq) <= k THEN seq ELSE SubSeq(seq, Len(seq) - k + 1, Len(seq))

\* Both windows are bounded and hold the most recent accepted positions in
\* arrival order.
C24_Windows ==
    /\ Len(pos_history) <= 8
    /\ Len(jitter_hist) <= JitterFrames
    /\ pos_history = LastOf(scen.accepted, 8)
    /\ jitter_hist = LastOf(scen.accepted, JitterFrames)

\* A call that is not gated appends its position to both windows; a gated
\* call appends to neither.
C24_Step ==
    Called =>
        IF call'.gated
        THEN pos_history' = pos_history /\ jitter_hist' = jitter_hist
        ELSE /\ pos_history'[Len(pos_history')] = call'.pos
             /\ jitter_hist'[Len(jitter_hist')] = call'.pos
             /\ Len(pos_history') = (IF Len(pos_history) < 8 THEN Len(pos_history) + 1 ELSE 8)
             /\ Len(jitter_hist')
                  = (IF Len(jitter_hist) < JitterFrames THEN Len(jitter_hist) + 1
                     ELSE JitterFrames)

\* C24: after any sequence of update calls the regression window holds at
\* most 8 positions and the jitter window at most jitter_frames (default 8);
\* both hold exactly the most recent accepted positions in arrival order; a
\* call that is not gated appends the same position to both and a gated call
\* appends to neither.
C24_WindowBounds == [](C24_Windows) /\ [][C24_Step]_vars

\* Ten calls, one of them gated: nine accepted positions, of which the windows
\* hold the last eight.
C24_Witness ==
    /\ n = 10
    /\ Len(scen.accepted) = 9
    /\ Len(pos_history) = 8 /\ Len(jitter_hist) = 8
    /\ pos_history[1] = scen.accepted[2]
    /\ call.gated

\* ------------------------------------------------------------------- C25

\* The step ran update for track 1.
C25_Fed == session'.op = "detect" /\ session' # session /\ ~IsNone(session'.obj)

\* The track had a smoother before the step.
C25_Known == ~IsNone(session.track_smoothers[1])

\* The dt of the call is positive: one frame on the first sighting and when
\* the id was already processed in this frame, else the frames since the last
\* processed detection; the last-seen frame becomes the current frame, gated
\* or not.
C25_Contract ==
    /\ Val(Val(session'.obj).dt) > 0
    /\ Val(Val(session'.obj).dt)
         = (IF ~C25_Known THEN FrameMs
            ELSE IF session.i - Val(session.last_seen_frame[1]) <= 0 THEN FrameMs
            ELSE (session.i - Val(session.last_seen_frame[1])) * FrameMs)
    /\ session'.last_seen_frame[1] = Some(session.i)
    /\ session'.updates[1] = session.updates[1] + 1

\* The frame of the call is later than the frame of the track's last call.
C25_LaterFrame == C25_Known => Val(session.last_seen_frame[1]) < session.i

\* The frame of the call is not before the frame of the track's last call,
\* and equal to it only for a second box of the id in one frame.
C25_NotEarlierFrame ==
    C25_Known =>
        /\ Val(session.last_seen_frame[1]) <= session.i
        /\ Val(session.last_seen_frame[1]) = session.i => session.j > 0

\* C25 as stated: every update call gets a positive dt, (frame - last processed
\* frame of the id) / fps, and 1 / fps on the first sighting and when that is
\* not positive (same id twice in one frame); the last-seen frame advances on
\* every processed detection, gated ones included; the frames of a track are
\* fed in strictly increasing order.
C25_StrictFrameOrder == [][C25_Fed => C25_Contract /\ C25_LaterFrame]_vars

\* C25, amended: the same contract, with the frames of a track fed in
\* non-decreasing order: a second box of the id in one frame is fed the same
\* frame again, with dt = 1 / fps.
C25_DtContract == [][C25_Fed => C25_Contract /\ C25_NotEarlierFrame]_vars

\* The id twice in frame 1, the second box 80 px away: the call has dt of one
\* frame, is rejected at the speed gate, and the last-seen frame is frame 1.
C25_Witness ==
    /\ Emitted /\ session.i = 1 /\ session.j = 2 /\ session.updates[1] = 3
    /\ Obj.dt = Some(FrameMs)
    /\ Obj.gated
    /\ session.last_seen_frame[1] = Some(1)

\* ------------------------------------------------------------------- C26

\* 200 km/h in the unit of the speeds.
SpeedCap == MaxPhysicsSpeed * SpeedScale

\* The stored speed, once set, and the returned speed are within [0, 200] km/h.
C26_InRange ==
    /\ ~IsNone(speed_state) => Val(speed_state) >= 0 /\ Val(speed_state) <= SpeedCap
    /\ ret.speed_kmh >= 0 /\ ret.speed_kmh <= SpeedCap

\* The raw speed of an accepted call is within [0, 200] km/h and the new
\* stored speed lies between it and the stored speed before.
C26_Step ==
    Accepting =>
        /\ call'.raw_speed >= 0 /\ call'.raw_speed <= SpeedCap
        /\ IsNone(speed_state) => speed_state' = Some(call'.raw_speed)
        /\ ~IsNone(speed_state) =>
              /\ Val(speed_state') >= Min2(Val(speed_state), call'.raw_speed)
              /\ Val(speed_state') <= Max2(Val(speed_state), call'.raw_speed)

\* C26: over any sequence of update calls the smoothed speed, once set, and
\* every returned speed_kmh lie in [0, 200] km/h: every accepted raw speed is
\* at most the gate and the EMA is a convex combination.
C26_SpeedRange == [](C26_InRange) /\ [][C26_Step]_vars

\* A run of steps of 198 km/h: the smoothed speed has climbed above 190 km/h.
C26_Witness ==
    /\ n = 10 /\ ~call.gated
    /\ call.raw_speed = 198 * SpeedScale
    /\ Val(speed_state) > 190 * SpeedScale
    /\ ret.speed_kmh = Val(speed_state)

\* ------------------------------------------------------------------- C27

\* An update on a smoother that has a smoothed heading keeps it and returns a
\* heading in [0, 360) that is not flagged as a default.
C27_Step ==
    (Called /\ ~IsNone(heading_vec_state)) =>
        /\ ~IsNone(heading_vec_state')
        /\ ~IsNone(ret'.heading)
        /\ Val(ret'.heading) >= 0 /\ Val(ret'.heading) < 360 * AngPerDeg
        /\ ~ret'.default_heading

\* A returned default or missing heading means there is no smoothed heading.
C27_Before ==
    (n >= 1 /\ (ret.default_heading \/ IsNone(ret.heading))) => IsNone(heading_vec_state)

\* C27: once the smoothed heading has been set it is never unset, and every
\* later update (gated, jittering, slow or normal, with or without guideline)
\* returns a heading in [0, 360) with default_heading False; a default or a
\* null heading is returned only before the first smoothed heading exists.
C27_HeadingMonotonic == [](C27_Before) /\ [][C27_Step]_vars

\* A gated call with a guideline heading on a smoother that has a heading.
C27_Witness ==
    /\ n >= 3 /\ call.gated /\ ~IsNone(call.svg)
    /\ ~IsNone(heading_vec_state)
    /\ ret.heading = Some(VecToDeg(heading_vec_state))
    /\ ~ret.default_heading

\* ------------------------------------------------------------------- C28

\* What the call of the step would have stored and returned as speed with the
\* guideline heading svg instead.
C28_Outcome(r) ==
    <<r.speed_state, r.heading_vec_state, r.velocity_vec_state, r.pos_history,
      r.jitter_hist, r.ret.speed_kmh>>

\* Guideline headings the other run may have: none, 0, 85, 90 and 270 degrees.
C28_Guidelines == {None, Some(0), Some(85 * AngPerDeg), Some(90 * AngPerDeg), Some(270 * AngPerDeg)}

\* The call of the step, with any other guideline heading, stores the same
\* windows, speed, heading vector and velocity vector and returns the same
\* speed.
C28_Step ==
    Called =>
        \A other \in C28_Guidelines :
            C28_Outcome(UpdateStep(Smoother, call'.pos, call'.dt, PxPerM, other))
              = <<speed_state', heading_vec_state', velocity_vec_state', pos_history',
                  jitter_hist', ret'.speed_kmh>>

\* C28: the guideline heading never influences the stored state: two runs fed
\* the same positions, dt and px_per_m but different guideline headings have
\* the same windows, smoothed speed, heading vector and velocity vector after
\* every step and return the same speed_kmh; the guideline changes only the
\* heading a call returns.
C28_GuidelineLeavesState == [][C28_Step]_vars

\* A call whose returned heading was pulled towards the guideline, away from
\* the stored heading.
C28_Witness ==
    /\ n >= 2 /\ call.branch = 1 /\ ~IsNone(call.svg)
    /\ ret.heading # call.smoothed
    /\ ret.heading # Some(VecToDeg(heading_vec_state))

\* ------------------------------------------------------------------- C29

\* The smoother of track 1 before the step and its last accepted position.
C29_Track == Val(session.track_smoothers[1])

C29_LastAccepted == C29_Track.pos_history[Len(C29_Track.pos_history)]

\* The observation of the step is farther from the last accepted position
\* than 200 km/h allows in the dt of the call: dist * 3.6 > 200 * px_per_m * dt,
\* dt in milliseconds, squared and divided by 200 * 200.
C29_TooFar ==
    18 * 18 * Dist2(PixelOf(Val(session'.obj).sat_coords), C29_LastAccepted)
      > (PxPerM * Val(Val(session'.obj).dt)) * (PxPerM * Val(Val(session'.obj).dt))

\* Such an observation is rejected and the smoother is left as it was; the
\* call returns the stored speed and heading; the call of the frame after a
\* rejected one has dt of one frame again.
C29_Step ==
    (C25_Fed /\ C25_Known) =>
        /\ C29_TooFar =>
              /\ Val(session'.obj).gated
              /\ session'.track_smoothers[1] = session.track_smoothers[1]
              /\ Val(session'.obj).heading = RetHeading(C29_Track.heading_vec_state)
              /\ ~IsNone(Val(session'.obj).heading)
                   => Val(session'.obj).speed_kmh = RetSpeed(C29_Track.speed_state)
        /\ (Val(session'.obj).gated) => C29_TooFar
        /\ (session.i = Val(session.last_seen_frame[1]) + 1)
              => Val(session'.obj).dt = Some(FrameMs)

\* C29: a rejected update does not record its position, so later updates are
\* gated against the last accepted position; while the observations stay
\* farther from it than the distance of 200 km/h at the supplied dt (one frame
\* again after each rejected frame in the pipeline) every update is rejected
\* and the smoother's speed, heading and windows do not change.
C29_NoRecovery == [][C29_Step]_vars

\* Accepted in frame 0, then 80 px away in frames 1, 2 and 3: three rejected
\* calls, and the smoother still holds the one position of frame 0.
C29_Witness ==
    /\ Emitted /\ session.i = 3 /\ session.updates[1] = 4
    /\ Obj.gated /\ Obj.dt = Some(FrameMs)
    /\ C29_Track.pos_history = << <<20, 80>> >>
    /\ PixelOf(Obj.sat_coords) = <<100, 80>>

\* ------------------------------------------------------------------- C30

\* The workers whose thread has not been joined.
C30_Unjoined == {w \in 1..Len(tab.workers) : ~tab.workers[w].joined}

\* One worker at a time, in queue order: at most one thread not joined, a
\* joined worker has emitted sig_finished, and the videos started are the
\* first of the queue in order.
C30_OneAtATime ==
    tab.phase = "batch" =>
        /\ Cardinality(C30_Unjoined) <= 1
        /\ \A w \in 1..Len(tab.workers) :
              /\ tab.workers[w].finished_emitted <= 1
              /\ tab.workers[w].pc = "returned" <=> tab.workers[w].finished_emitted = 1
              /\ tab.workers[w].joined => tab.workers[w].pc = "returned"
        /\ Len(tab.started) <= Len(tab.selected)
        /\ tab.started = SubSeq(tab.selected, 1, Len(tab.started))

\* C30: batch inference runs the queued videos one at a time in queue order,
\* a worker being started only after the one before has emitted sig_finished
\* (once) and its thread was joined; once Stop was clicked or a worker has
\* reported an error, no further queued video is started.
C30_NoStartAfterErrorOrStop ==
    [][tab.phase = "batch" =>
         /\ C30_OneAtATime'
         /\ (Len(tab'.workers) > Len(tab.workers) /\ tab'.batches = tab.batches)
               => ~tab.error_reported /\ ~tab.stop_clicked]_vars

\* After Stop was clicked no further queued video is started.
C30_NoStartAfterStop ==
    [][(tab.phase = "batch" /\ Len(tab'.workers) > Len(tab.workers)
          /\ tab'.batches = tab.batches)
         => ~tab.stop_clicked]_vars

\* A batch ends idle with Start enabled.
C30_EndsIdle ==
    (tab.phase = "batch" /\ tab.is_processing)
       ~> (~tab.is_processing /\ tab.btn_start /\ ~tab.btn_stop /\ tab.pbar = "Idle")
====
